---------------------------- MODULE Spec2Model ----------------------------
(***************************************************************************)
(* A model of montreal_forced_aligner/textgrid.py: the lexical lookup and  *)
(* splitter (split_clitics, _lookup, to_int), the word reconstructor       *)
(* (parse_from_word), the phone remapper (map_to_original_pronunciation),  *)
(* the annotation exporter (export_textgrid) and the batch export loop of  *)
(* ctms_to_textgrids_non_mp with its error report.                         *)
(*                                                                         *)
(* A Python str is a sequence of one-character strings, so that splitting, *)
(* stripping and concatenation are computed and not assumed.  A Python     *)
(* exception is the value Raised where a function returns, and the         *)
(* position "raised" of the process that runs it.                          *)
(***************************************************************************)
EXTENDS Integers, Sequences, FiniteSets, TLC

VARIABLES
    \* _lookup / split_clitics / to_int applied to one word
    dictionary_data,  \* DictionaryData: words_mapping, punctuation, clitic_set, ...
    item,             \* the word handed to the lookup
    lookup_out,       \* what _lookup returned, NotRun before the call
    split_out,        \* what split_clitics returned, NotRun before the call
    \* parse_from_word
    text,             \* the original tokens of the utterance
    ctm_labels,       \* the aligned sub-token intervals, labels are word ids
    word_ind,         \* how many tokens of text the for loop has taken
    cur_ind,          \* the cursor into ctm_labels (0-based, as in the code)
    utterance,        \* utterance id of the first entry read, None before
    actual_labels,    \* the intervals built so far
    pw_pc,            \* "idle", "loop", "returned" or "raised" (IndexError)
    \* map_to_original_pronunciation
    phones,           \* the aligned phones; their labels are rewritten in place
    phones_in,        \* the aligned phones as they were handed in
    subpronunciations,\* per sub-word, its candidate pronunciation entries
    strip_diacritics, \* the diacritics stripped from the original phones
    sub_ind,          \* how many sub-words the outer for loop has taken
    mapping_ind,      \* cursor into phones (0-based)
    transcription_ind,\* cursor into the transcription (0-based)
    new_phones,       \* the intervals built so far
    mp_pc,            \* "idle", "loop", "returned" or "raised" (IndexError)
    \* ctms_to_textgrids_non_mp, the export loop and the error report
    jobs,             \* aligner.corpus.jobs: per job, the names of its files
    debug,            \* aligner.align_config.debug
    job_ind,          \* the job the outer for loop is at (1-based)
    file_ind,         \* how many files of that job have been taken
    processed_files,  \* names exported by the job so far
    export_errors,    \* dict name -> error text, as its items in order
    outputs,          \* the TextGrid files on disk: name -> what was written
    error_log,        \* output_errors.txt: whether it exists, and its entries
    export_log,       \* every export tried so far, in order
    batch_pc,         \* "idle", "job", "files", "done" or "raised"
    \* export_textgrid
    file,             \* the File: duration and speaker_ordering
    speaker_data,     \* per speaker, in dict order: its words and phones
    speaker_data_in,  \* speaker_data as it was handed in
    frame_shift,      \* the frame_shift argument, in millionths
    first_file_write, \* the first_file_write argument
    disk,             \* the TextGrid at output_path: whether it exists, its tiers
    tg,               \* the Textgrid being built: its tiers in order
    spk_ind,          \* how many speakers of speaker_data have been taken
    ex_pc,            \* "idle", "open", "tiers", "saved" or "raised"
    \* process_ctm_line
    line,             \* the line argument, a str
    ctm_record,       \* the record the line was written from
    ctm_out,          \* the CtmInterval returned
    ctm_pc,           \* "idle", "call", "returned" or "raised"
    \* generate_tiers
    utterances,       \* file.utterances.values(), in file order
    cleanup_textgrids, \* the cleanup_textgrids argument
    utt_ind,          \* how many utterances have been taken
    output,           \* dict speaker -> words and phones, as its items in order
    gt_pc,            \* "idle", "loop", "returned" or "raised"
    \* ctms_to_textgrids_non_mp, the record streaming of one job
    ctm_paths,        \* per dictionary, the records of its CTM file, in order
    stream_mode,      \* which labels are streamed and how they are converted
    dict_ind,         \* how many CTM files have been read to their end
    rec_ind,          \* how many records of the file at hand have been taken
    cur_utt,          \* the utterance of the buffer, None before the first record
    current_labels,   \* the buffer of intervals
    conversions,      \* every call of process_current_*_labels so far, in order
    st_pc             \* "idle", "lines", "done" or "raised" (ValueError)

lookupVars == <<item, lookup_out, split_out>>
wordVars == <<text, ctm_labels, word_ind, cur_ind, utterance, actual_labels, pw_pc>>

remapVars == <<phones, phones_in, subpronunciations, strip_diacritics, sub_ind,
               mapping_ind, transcription_ind, new_phones, mp_pc>>

batchVars == <<jobs, debug, job_ind, file_ind, processed_files, export_errors,
               outputs, error_log, export_log, batch_pc>>

exportVars == <<file, speaker_data, speaker_data_in, frame_shift, first_file_write,
                disk, tg, spk_ind, ex_pc>>

ctmVars == <<line, ctm_record, ctm_out, ctm_pc>>

tierVars == <<utterances, cleanup_textgrids, utt_ind, output, gt_pc>>

streamVars == <<ctm_paths, stream_mode, dict_ind, rec_ind, cur_utt, current_labels,
                conversions, st_pc>>

vars == <<dictionary_data, lookupVars, wordVars, remapVars, batchVars, exportVars,
          ctmVars, tierVars, streamVars>>

NotRun == "not run"
None == "None"

LookupIdle == item = <<>> /\ lookup_out = NotRun /\ split_out = NotRun
WordIdle ==
    /\ text = <<>> /\ ctm_labels = <<>> /\ word_ind = 0 /\ cur_ind = 0
    /\ utterance = None /\ actual_labels = <<>> /\ pw_pc = "idle"
RemapIdle ==
    /\ phones = <<>> /\ phones_in = <<>> /\ subpronunciations = <<>>
    /\ strip_diacritics = <<>> /\ sub_ind = 0 /\ mapping_ind = 0
    /\ transcription_ind = 0 /\ new_phones = <<>> /\ mp_pc = "idle"
DictionaryIdle == dictionary_data = None
BatchIdle ==
    /\ jobs = <<>> /\ debug = FALSE /\ job_ind = 0 /\ file_ind = 0
    /\ processed_files = {} /\ export_errors = <<>> /\ outputs = <<>>
    /\ error_log = <<>> /\ export_log = <<>> /\ batch_pc = "idle"
ExportIdle ==
    /\ file = <<>> /\ speaker_data = <<>> /\ speaker_data_in = <<>>
    /\ frame_shift = 0 /\ first_file_write = TRUE /\ disk = <<>> /\ tg = <<>>
    /\ spk_ind = 0 /\ ex_pc = "idle"
CtmIdle == line = <<>> /\ ctm_record = <<>> /\ ctm_out = NotRun /\ ctm_pc = "idle"
TierIdle ==
    /\ utterances = <<>> /\ cleanup_textgrids = TRUE /\ utt_ind = 0
    /\ output = <<>> /\ gt_pc = "idle"
StreamIdle ==
    /\ ctm_paths = <<>> /\ stream_mode = "idle" /\ dict_ind = 0 /\ rec_ind = 0
    /\ cur_utt = None /\ current_labels = <<>> /\ conversions = <<>>
    /\ st_pc = "idle"

-----------------------------------------------------------------------------
(* Strings *)

\* Longest word of the model, in characters.
MaxWordLen == 3

Letters == {"a", "s"}
CliticChars == {"'", "~"}
CompoundChars == {"-"}
PunctuationChars == {"."}
Alphabet == Letters \cup CliticChars \cup CompoundChars \cup PunctuationChars

StrUpTo(n) == UNION {[1..k -> Alphabet] : k \in 0..n}

\* x in item, for a character x
Contains(s, ch) == \E i \in 1..Len(s) : s[i] = ch

\* any(x in item for x in markers)
AnyIn(markers, s) == \E k \in 1..Len(markers) : Contains(s, markers[k])

IsMarker(markers, ch) == \E k \in 1..Len(markers) : markers[k] = ch

startswith(s, ch) == Len(s) > 0 /\ s[1] = ch
endswith(s, ch) == Len(s) > 0 /\ s[Len(s)] = ch

\* Index of the first character of s that is one of markers; 0 when none is.
FirstMarker(markers, s) ==
    IF AnyIn(markers, s)
    THEN CHOOSE i \in 1..Len(s) :
            /\ IsMarker(markers, s[i])
            /\ \A j \in 1..(i - 1) : ~IsMarker(markers, s[j])
    ELSE 0

\* re.split(rf"[{markers}]", s): the pieces between the marker characters.
RECURSIVE re_split(_, _)
re_split(markers, s) ==
    LET i == FirstMarker(markers, s)
    IN  IF i = 0
        THEN <<s>>
        ELSE <<SubSeq(s, 1, i - 1)>> \o re_split(markers, SubSeq(s, i + 1, Len(s)))

\* re.split(rf"[{markers}]", s, maxsplit=1) for an s that holds a marker.
re_split_first(markers, s) ==
    LET i == FirstMarker(markers, s)
    IN  <<SubSeq(s, 1, i - 1), SubSeq(s, i + 1, Len(s))>>

-----------------------------------------------------------------------------
(* Lexical lookup / splitter *)

\* montreal_forced_aligner.dictionary.sanitize: punctuation that is not a
\* clitic marker is stripped from both ends of the word.
Strippable(punctuation, clitic_markers, ch) ==
    IsMarker(punctuation, ch) /\ ~IsMarker(clitic_markers, ch)

RECURSIVE sanitize(_, _, _)
sanitize(s, punctuation, clitic_markers) ==
    IF Len(s) = 0 THEN s
    ELSE IF Strippable(punctuation, clitic_markers, s[1])
    THEN sanitize(Tail(s), punctuation, clitic_markers)
    ELSE IF Strippable(punctuation, clitic_markers, s[Len(s)])
    THEN sanitize(SubSeq(s, 1, Len(s) - 1), punctuation, clitic_markers)
    ELSE s

\* Mutant of CliticAttach: when initial+clitic is a clitic token, the rest of
\* the word (final) is forgotten.
CliticAttachForgetsFinal(initial, final, clitic, clitic_set) ==
    IF (initial \o <<clitic>>) \in clitic_set
    THEN <<initial \o <<clitic>>>>
    ELSE IF (<<clitic>> \o final[1]) \in clitic_set
    THEN <<initial>> \o <<(<<clitic>> \o final[1])>> \o Tail(final)
    ELSE <<>>

\* split_clitics, lines 170-174: the piece that absorbs the marker clitic, or
\* <<>> when neither initial+clitic nor clitic+final[0] is a clitic token.
CliticAttach(initial, final, clitic, clitic_set) ==
    IF (initial \o <<clitic>>) \in clitic_set
    THEN <<initial \o <<clitic>>>> \o final
    ELSE IF (<<clitic>> \o final[1]) \in clitic_set
    THEN <<initial>> \o <<(<<clitic>> \o final[1])>> \o Tail(final)
    ELSE <<>>

\* split_clitics, lines 169-175: the loop over the clitic markers, from the
\* k-th on; the first marker that attaches wins, [item] when none does.
RECURSIVE CliticLoop(_, _, _, _, _, _)
CliticLoop(k, theItem, initial, final, clitic_set, clitic_markers) ==
    IF k > Len(clitic_markers)
    THEN <<theItem>>
    ELSE LET r == CliticAttach(initial, final, clitic_markers[k], clitic_set)
         IN  IF r # <<>>
             THEN r
             ELSE CliticLoop(k + 1, theItem, initial, final, clitic_set, clitic_markers)

\* Concatenation of a sequence of lists (new_s.extend / new_s.append).
RECURSIVE Flatten(_)
Flatten(ss) == IF ss = <<>> THEN <<>> ELSE Head(ss) \o Flatten(Tail(ss))

RECURSIVE split_clitics(_, _, _, _, _)
split_clitics(theItem, words_mapping, clitic_set, clitic_markers, compound_markers) ==
    IF theItem \in DOMAIN words_mapping
    THEN <<theItem>>
    ELSE IF AnyIn(compound_markers, theItem)
    THEN LET s == re_split(compound_markers, theItem)
         IN  IF AnyIn(clitic_markers, theItem)
             THEN Flatten([n \in 1..Len(s) |->
                      IF AnyIn(clitic_markers, s[n])
                      THEN split_clitics(s[n], words_mapping, clitic_set,
                                         clitic_markers, compound_markers)
                      ELSE <<s[n]>>])
             ELSE s
    ELSE IF \E k \in 1..Len(clitic_markers) :
               /\ Contains(theItem, clitic_markers[k])
               /\ ~endswith(theItem, clitic_markers[k])
               /\ ~startswith(theItem, clitic_markers[k])
    THEN LET parts == re_split_first(clitic_markers, theItem)
             initial == parts[1]
             final == IF AnyIn(clitic_markers, parts[2])
                      THEN split_clitics(parts[2], words_mapping, clitic_set,
                                         clitic_markers, compound_markers)
                      ELSE <<parts[2]>>
         IN  CliticLoop(1, theItem, initial, final, clitic_set, clitic_markers)
    ELSE <<theItem>>

\* Mutant of OovCount: the tokens inside the vocabulary are counted.
OovCountOfKnownTokens(split, words_mapping) ==
    Cardinality({n \in 1..Len(split) : split[n] \in DOMAIN words_mapping})

\* sum(1 for x in split if x not in words_mapping)
OovCount(split, words_mapping) ==
    Cardinality({n \in 1..Len(split) : split[n] \notin DOMAIN words_mapping})

\* Mutant of _lookup: the word is sanitized before the vocabulary is asked.
LookupSanitizesFirst(theItem, words_mapping, punctuation, clitic_set, clitic_markers, compound_markers) ==
    LET sanitized == sanitize(theItem, punctuation, clitic_markers)
        split == split_clitics(sanitized, words_mapping, clitic_set,
                               clitic_markers, compound_markers)
    IN  IF sanitized \in DOMAIN words_mapping THEN <<sanitized>>
        ELSE IF OovCount(split, words_mapping) < Len(split) THEN split
        ELSE <<sanitized>>

_lookup(theItem, words_mapping, punctuation, clitic_set, clitic_markers, compound_markers) ==
    IF theItem \in DOMAIN words_mapping
    THEN <<theItem>>
    ELSE LET sanitized == sanitize(theItem, punctuation, clitic_markers)
             split == split_clitics(sanitized, words_mapping, clitic_set,
                                    clitic_markers, compound_markers)
         IN  IF sanitized \in DOMAIN words_mapping THEN <<sanitized>>
             ELSE IF OovCount(split, words_mapping) < Len(split) THEN split
             ELSE <<sanitized>>

\* Mutant of IntsOf: an empty sub-token is mapped like any other token
\* outside the vocabulary.
IntsOfKeepsEmpty(tokens, words_mapping, oov_int) ==
    [n \in 1..Len(tokens) |->
        IF tokens[n] \in DOMAIN words_mapping THEN words_mapping[tokens[n]]
        ELSE oov_int]

\* to_int, lines 242-250: empty sub-tokens are skipped, the others mapped.
RECURSIVE IntsOf(_, _, _)
IntsOf(tokens, words_mapping, oov_int) ==
    IF tokens = <<>> THEN <<>>
    ELSE LET t == Head(tokens)
             rest == IntsOf(Tail(tokens), words_mapping, oov_int)
         IN  IF t = <<>> THEN rest
             ELSE IF t \notin DOMAIN words_mapping THEN <<oov_int>> \o rest
             ELSE <<words_mapping[t]>> \o rest

to_int(theItem, words_mapping, punctuation, clitic_set, clitic_markers, compound_markers, oov_int) ==
    IF theItem = <<>>
    THEN <<>>
    ELSE IntsOf(_lookup(theItem, words_mapping, punctuation, clitic_set,
                        clitic_markers, compound_markers),
                words_mapping, oov_int)


-----------------------------------------------------------------------------
(* Dictionaries *)

\* The words a vocabulary is drawn from; a word's id is its place here.
VocabPool ==
    << <<"a">>, <<"s">>, <<"'", "s">>, <<"a", "'">>, <<"a", ".">>, <<"~", "s">> >>

\* Most words of one vocabulary.
MaxVocab == 2

\* The reserved out-of-vocabulary id (dictionary_data.oov_int).
OovInt == Len(VocabPool) + 1

Vocabularies == {S \in SUBSET (1..Len(VocabPool)) : Cardinality(S) <= MaxVocab}

WordsMappingOf(S) == [w \in {VocabPool[n] : n \in S} |->
                         CHOOSE n \in S : VocabPool[n] = w]

\* The clitic tokens of a vocabulary: its words that begin or end with a
\* clitic marker.
CliticSetOf(S, clitic_markers) ==
    {w \in {VocabPool[n] : n \in S} :
        \E k \in 1..Len(clitic_markers) :
            startswith(w, clitic_markers[k]) \/ endswith(w, clitic_markers[k])}

CliticMarkerChoices == {<<"'">>, <<"'", "~">>}
PunctuationChoices == {<<".">>, <<".", "'">>}

Dictionaries ==
    {[words_mapping |-> WordsMappingOf(S),
      punctuation |-> pu,
      clitic_set |-> CliticSetOf(S, cm),
      clitic_markers |-> cm,
      compound_markers |-> <<"-">>,
      oov_int |-> OovInt] :
        S \in Vocabularies, cm \in CliticMarkerChoices, pu \in PunctuationChoices}

-----------------------------------------------------------------------------
(* The lookup applied to one word *)

InitLookup ==
    /\ dictionary_data \in Dictionaries
    /\ item \in StrUpTo(MaxWordLen)
    /\ lookup_out = NotRun
    /\ split_out = NotRun
    /\ WordIdle /\ RemapIdle /\ BatchIdle /\ ExportIdle
    /\ CtmIdle /\ TierIdle /\ StreamIdle

Lookup ==
    /\ lookup_out = NotRun
    /\ lookup_out' = _lookup(item, dictionary_data.words_mapping,
                             dictionary_data.punctuation, dictionary_data.clitic_set,
                             dictionary_data.clitic_markers,
                             dictionary_data.compound_markers)
    /\ UNCHANGED <<dictionary_data, item, split_out, wordVars, remapVars, batchVars, exportVars,
                   ctmVars, tierVars,
                   streamVars>>

SplitClitics ==
    /\ lookup_out # NotRun
    /\ split_out = NotRun
    /\ split_out' = split_clitics(item, dictionary_data.words_mapping,
                                  dictionary_data.clitic_set,
                                  dictionary_data.clitic_markers,
                                  dictionary_data.compound_markers)
    /\ UNCHANGED <<dictionary_data, item, lookup_out, wordVars, remapVars, batchVars, exportVars,
                   ctmVars, tierVars,
                   streamVars>>

NextLookup == Lookup \/ SplitClitics

SpecLookup == InitLookup /\ [][NextLookup]_vars

-----------------------------------------------------------------------------
(* Claims about the lookup *)

\* The characters of s that are neither clitic nor compound markers.
WithoutMarkers(s) ==
    SelectSeq(s, LAMBDA ch : ~IsMarker(dictionary_data.clitic_markers, ch)
                             /\ ~IsMarker(dictionary_data.compound_markers, ch))

LookupRan == lookup_out # NotRun
SplitRan == split_out # NotRun

Sanitized == sanitize(item, dictionary_data.punctuation, dictionary_data.clitic_markers)

\* C8 as stated: the tokens _lookup and split_clitics return, concatenated
\* and with the clitic and compound markers ignored, are the characters of
\* the original word in order.
C8_TokensSpellOriginalWord ==
    /\ LookupRan => WithoutMarkers(Flatten(lookup_out)) = WithoutMarkers(item)
    /\ SplitRan => WithoutMarkers(Flatten(split_out)) = WithoutMarkers(item)

\* C8 as amended: the tokens split_clitics returns spell the word it was
\* given, markers ignored; the tokens _lookup returns spell the word itself
\* when it is in the vocabulary and the sanitized word (punctuation stripped)
\* otherwise.
C8_TokensSpellSanitizedWord ==
    /\ LookupRan =>
          WithoutMarkers(Flatten(lookup_out)) =
             WithoutMarkers(IF item \in DOMAIN dictionary_data.words_mapping
                            THEN item ELSE Sanitized)
    /\ SplitRan => WithoutMarkers(Flatten(split_out)) = WithoutMarkers(item)

\* A word outside the vocabulary was split at a clitic marker into two tokens.
C8_SplitHappened ==
    /\ LookupRan /\ SplitRan
    /\ item \notin DOMAIN dictionary_data.words_mapping
    /\ Len(lookup_out) = 2 /\ Len(split_out) = 2
    /\ AnyIn(dictionary_data.clitic_markers, item)
    /\ ~AnyIn(dictionary_data.compound_markers, item)

\* C9: for a word w of the vocabulary _lookup returns [w], unsanitized and
\* unsplit, and looking up the tokens of that result gives the result again.
C9_LookupOfVocabularyWordIsIdentity ==
    (LookupRan /\ item \in DOMAIN dictionary_data.words_mapping) =>
        /\ lookup_out = <<item>>
        /\ Flatten([n \in 1..Len(lookup_out) |->
               _lookup(lookup_out[n], dictionary_data.words_mapping,
                       dictionary_data.punctuation, dictionary_data.clitic_set,
                       dictionary_data.clitic_markers,
                       dictionary_data.compound_markers)]) = lookup_out

\* A vocabulary word that sanitizing would change has been looked up.
C9_VocabularyWordWithPunctuation ==
    /\ LookupRan
    /\ item \in DOMAIN dictionary_data.words_mapping
    /\ Sanitized # item

InVocabulary(w) == w \in DOMAIN dictionary_data.words_mapping

\* The structural split of the sanitized word.
SanitizedSplit ==
    split_clitics(Sanitized, dictionary_data.words_mapping, dictionary_data.clitic_set,
                  dictionary_data.clitic_markers, dictionary_data.compound_markers)

\* C23: for a word that is in the vocabulary neither as it is nor sanitized,
\* _lookup returns the structural split of the sanitized word when at least
\* one token of the split is in the vocabulary, and [sanitized] when none
\* is, so that it then returns one token.
C23_SplitKeptOnlyIfItGains ==
    (LookupRan /\ ~InVocabulary(item) /\ ~InVocabulary(Sanitized)) =>
        IF \E n \in 1..Len(SanitizedSplit) : InVocabulary(SanitizedSplit[n])
        THEN lookup_out = SanitizedSplit
        ELSE lookup_out = <<Sanitized>> /\ Len(lookup_out) = 1

\* A word was looked up whose split has two tokens, neither of them in the
\* vocabulary, and the split was discarded.
C23_UnproductiveSplitDiscarded ==
    /\ LookupRan
    /\ ~InVocabulary(item) /\ ~InVocabulary(Sanitized)
    /\ Len(SanitizedSplit) = 2
    /\ \A n \in 1..2 : ~InVocabulary(SanitizedSplit[n])
    /\ lookup_out = <<Sanitized>>

\* A clitic marker lies strictly inside the word, which has no compound
\* marker and is not in the vocabulary.
CliticInside ==
    /\ ~InVocabulary(item)
    /\ ~AnyIn(dictionary_data.compound_markers, item)
    /\ \E k \in 1..Len(dictionary_data.clitic_markers) :
          /\ Contains(item, dictionary_data.clitic_markers[k])
          /\ ~startswith(item, dictionary_data.clitic_markers[k])
          /\ ~endswith(item, dictionary_data.clitic_markers[k])

\* C24: such a word is split at its first clitic marker into initial and
\* final; if initial with that marker is a clitic token the result is that
\* token and then final, else if the marker with the first piece of final
\* is a clitic token the result is initial and then that token, else the
\* word comes back unsplit; the piece that absorbs the marker carries the
\* marker that stands in the word, whatever the set of clitic markers.
C24_FirstMarkerAttachesInitialFirst ==
    (SplitRan /\ CliticInside) =>
        LET marker == item[FirstMarker(dictionary_data.clitic_markers, item)]
            parts == re_split_first(dictionary_data.clitic_markers, item)
            initial == parts[1]
            final == IF AnyIn(dictionary_data.clitic_markers, parts[2])
                     THEN split_clitics(parts[2], dictionary_data.words_mapping,
                                        dictionary_data.clitic_set,
                                        dictionary_data.clitic_markers,
                                        dictionary_data.compound_markers)
                     ELSE <<parts[2]>>
        IN  IF (initial \o <<marker>>) \in dictionary_data.clitic_set
            THEN split_out = <<initial \o <<marker>>>> \o final
            ELSE IF (<<marker>> \o final[1]) \in dictionary_data.clitic_set
            THEN split_out = <<initial, <<marker>> \o final[1]>> \o Tail(final)
            ELSE split_out = <<item>>

-----------------------------------------------------------------------------
(* Word reconstructor: parse_from_word *)

\* CtmInterval(begin, end, label, utterance).  Times are whole numbers here;
\* the label of an aligned entry is the word id that int(cur.label) reads.
CtmInterval(begin, end, label, utt) ==
    [begin |-> begin, end |-> end, label |-> label, utterance |-> utt]

\* b = 1000000 and e = -1, the bounds before any entry matched.
BeginSentinel == 1000000
EndSentinel == -1

\* Mutant of TrackBounds: the end is taken from the first matching entry
\* only.
TrackBoundsKeepsFirstEnd(acc, cur, i) ==
    IF i = cur.label
    THEN [acc EXCEPT !.b = IF cur.begin < acc.b THEN cur.begin ELSE acc.b,
                     !.e = IF acc.e = EndSentinel THEN cur.end ELSE acc.e]
    ELSE acc

\* Mutant of TrackBounds: every consumed entry widens the bounds, whatever
\* its label.
TrackBoundsOfAnyEntry(acc, cur, i) ==
    [acc EXCEPT !.b = IF cur.begin < acc.b THEN cur.begin ELSE acc.b,
                !.e = IF cur.end > acc.e THEN cur.end ELSE acc.e]

\* Lines 292-296: an entry whose label is the expected id widens the bounds.
TrackBounds(acc, cur, i) ==
    IF i = cur.label
    THEN [acc EXCEPT !.b = IF cur.begin < acc.b THEN cur.begin ELSE acc.b,
                     !.e = IF cur.end > acc.e THEN cur.end ELSE acc.e]
    ELSE acc

\* Lines 288-297: one entry of ctm_labels is read per expected id; reading
\* past the end of ctm_labels raises IndexError.
RECURSIVE ConsumeEntries(_, _, _)
ConsumeEntries(ints, labels, acc) ==
    IF ints = <<>>
    THEN acc
    ELSE IF acc.cur_ind >= Len(labels)
    THEN [acc EXCEPT !.raised = TRUE]
    ELSE LET cur == labels[acc.cur_ind + 1]
             seen == IF acc.utterance = None
                     THEN [acc EXCEPT !.utterance = cur.utterance]
                     ELSE acc
             tracked == TrackBounds(seen, cur, Head(ints))
         IN  ConsumeEntries(Tail(ints), labels,
                            [tracked EXCEPT !.cur_ind = acc.cur_ind + 1])

\* Mutant of AppendLabel: a word none of whose entries matched is left out.
AppendLabelIfMatched(labels, lab) ==
    IF lab.end = EndSentinel THEN labels ELSE Append(labels, lab)

\* Line 299: actual_labels.append(lab)
AppendLabel(labels, lab) == Append(labels, lab)

WordInts(word) ==
    to_int(word, dictionary_data.words_mapping, dictionary_data.punctuation,
           dictionary_data.clitic_set, dictionary_data.clitic_markers,
           dictionary_data.compound_markers, dictionary_data.oov_int)

\* One turn of "for word in text" (lines 282-299).
ParseWord ==
    /\ pw_pc = "loop"
    /\ word_ind < Len(text)
    /\ LET word == text[word_ind + 1]
           r == ConsumeEntries(WordInts(word), ctm_labels,
                               [b |-> BeginSentinel, e |-> EndSentinel,
                                cur_ind |-> cur_ind, utterance |-> utterance,
                                raised |-> FALSE])
       IN  /\ cur_ind' = r.cur_ind
           /\ utterance' = r.utterance
           /\ IF r.raised
              THEN /\ pw_pc' = "raised"
                   /\ UNCHANGED <<word_ind, actual_labels>>
              ELSE /\ pw_pc' = "loop"
                   /\ word_ind' = word_ind + 1
                   /\ actual_labels' =
                         AppendLabel(actual_labels,
                                     CtmInterval(r.b, r.e, word, r.utterance))
    /\ UNCHANGED <<dictionary_data, text, ctm_labels, lookupVars, remapVars, batchVars, exportVars,
                   ctmVars, tierVars,
                   streamVars>>

\* Line 300: return actual_labels
ParseReturn ==
    /\ pw_pc = "loop"
    /\ word_ind = Len(text)
    /\ pw_pc' = "returned"
    /\ UNCHANGED <<dictionary_data, text, ctm_labels, word_ind, cur_ind,
                   utterance, actual_labels, lookupVars, remapVars, batchVars, exportVars,
                   ctmVars, tierVars,
                   streamVars>>

\* Most tokens of an utterance text, most entries of an aligned stream.
MaxText == 2
MaxCtm == 3

\* The vocabularies of the utterances: {a, 's}, {a} and {'s}.
WordDictionaries ==
    {[words_mapping |-> WordsMappingOf(S),
      punctuation |-> <<".">>,
      clitic_set |-> CliticSetOf(S, <<"'">>),
      clitic_markers |-> <<"'">>,
      compound_markers |-> <<"-">>,
      oov_int |-> OovInt] : S \in {{1, 3}, {1}, {3}}}

TextWords == {<<"a">>, <<"s">>, <<"a", "'", "s">>, <<".">>, <<"a", "-">>}
Texts == UNION {[1..n -> TextWords] : n \in 0..MaxText}

\* The ids an aligned entry carries: a, 's or the out-of-vocabulary id.
StreamIds == {1, 3, OovInt}

\* Aligned streams are time-ordered and non-overlapping: back to back
\* (gap 0) or with silence between the entries (gap 1).
StreamOf(ids, gap) ==
    [k \in 1..Len(ids) |->
        CtmInterval((k - 1) * (1 + gap), (k - 1) * (1 + gap) + 1, ids[k], "utt1")]

Streams ==
    UNION {{StreamOf(ids, gap) : ids \in [1..n -> StreamIds], gap \in {0, 1}} :
              n \in 0..MaxCtm}

InitWord ==
    /\ dictionary_data \in WordDictionaries
    /\ text \in Texts
    /\ ctm_labels \in Streams
    /\ word_ind = 0
    /\ cur_ind = 0
    /\ utterance = None
    /\ actual_labels = <<>>
    /\ pw_pc = "loop"
    /\ LookupIdle /\ RemapIdle /\ BatchIdle /\ ExportIdle
    /\ CtmIdle /\ TierIdle /\ StreamIdle

NextWord == ParseWord \/ ParseReturn

SpecWord == InitWord /\ [][NextWord]_vars

-----------------------------------------------------------------------------
(* Claims about parse_from_word *)

RECURSIVE SumLen(_)
SumLen(ss) == IF ss = <<>> THEN 0 ELSE Len(Head(ss)) + SumLen(Tail(ss))

\* The cursor the k-th token starts at: one entry per sub-token id of the
\* tokens before it.
CursorBefore(k) == SumLen([j \in 1..(k - 1) |-> WordInts(text[j])])

\* The entries of ctm_labels consumed for the k-th token.
ConsumedFor(k) ==
    {n \in 1..Len(ctm_labels) :
        CursorBefore(k) < n /\ n <= CursorBefore(k) + Len(WordInts(text[k]))}

\* [lo, hi] lies inside the union of the spans of the entries in ns: its end
\* points and every unit stretch of it are inside one of the spans.
InsideUnion(lo, hi, ns) ==
    /\ \A t \in {lo, hi} :
          \E n \in ns : ctm_labels[n].begin <= t /\ t <= ctm_labels[n].end
    /\ \A t \in lo..(hi - 1) :
          \E n \in ns : ctm_labels[n].begin <= t /\ t + 1 <= ctm_labels[n].end

\* C3: every word interval parse_from_word built has begin <= end and lies
\* inside the union of the spans of the entries consumed for its word.
C3_WordIntervalInsideConsumedSpans ==
    \A k \in 1..Len(actual_labels) :
        /\ actual_labels[k].begin <= actual_labels[k].end
        /\ InsideUnion(actual_labels[k].begin, actual_labels[k].end, ConsumedFor(k))

\* C4: parse_from_word returns one interval per token of the text, in the
\* order of the tokens, each labelled with the original token.
C4_OneIntervalPerToken ==
    /\ pw_pc = "returned" =>
          /\ Len(actual_labels) = Len(text)
          /\ \A k \in 1..Len(text) : actual_labels[k].label = text[k]
    /\ pw_pc = "loop" =>
          /\ Len(actual_labels) = word_ind
          /\ \A k \in 1..word_ind : actual_labels[k].label = text[k]

\* Two tokens came back, one that the lookup split and one that was
\* sanitized to nothing and matched no entry.
C4_ReturnedSplitAndEmptyToken ==
    /\ pw_pc = "returned"
    /\ Len(text) = 2
    /\ Len(WordInts(text[1])) = 2
    /\ WordInts(text[2]) = <<>>

\* The k-th token is outside the vocabulary and splits at its clitic marker
\* into a host and a clitic token that are both in the vocabulary, and the
\* stream carries their two ids, in order, where the token's entries start.
IsCliticCase(k) ==
    LET lk == _lookup(text[k], dictionary_data.words_mapping,
                      dictionary_data.punctuation, dictionary_data.clitic_set,
                      dictionary_data.clitic_markers,
                      dictionary_data.compound_markers)
        c == CursorBefore(k)
    IN  /\ text[k] \notin DOMAIN dictionary_data.words_mapping
        /\ Len(lk) = 2
        /\ lk[1] \in DOMAIN dictionary_data.words_mapping
        /\ lk[2] \in DOMAIN dictionary_data.words_mapping
        /\ lk[2] \in dictionary_data.clitic_set
        /\ c + 2 <= Len(ctm_labels)
        /\ ctm_labels[c + 1].label = dictionary_data.words_mapping[lk[1]]
        /\ ctm_labels[c + 2].label = dictionary_data.words_mapping[lk[2]]

\* C5: such a token yields one interval labelled with the original word,
\* from the first sub-token's begin to the last sub-token's end.
C5_CliticsMergedIntoOriginalWord ==
    \A k \in 1..Len(actual_labels) :
        IsCliticCase(k) =>
            /\ actual_labels[k].begin = ctm_labels[CursorBefore(k) + 1].begin
            /\ actual_labels[k].end = ctm_labels[CursorBefore(k) + 2].end
            /\ actual_labels[k].label = text[k]

\* "a's" over the entries of a and 's has been rebuilt, after another token.
C5_CliticWordRebuilt ==
    /\ pw_pc = "returned"
    /\ Len(actual_labels) = 2
    /\ IsCliticCase(2)
    /\ text[2] = <<"a", "'", "s">>

\* The intervals are time-ordered and do not overlap: none ends before it
\* begins and each ends no later than the next begins.
OrderedIntervals(ivs) ==
    /\ \A k \in 1..Len(ivs) : ivs[k].begin <= ivs[k].end
    /\ \A k \in 1..(Len(ivs) - 1) : ivs[k].end <= ivs[k + 1].begin

\* C19: the aligned entries given to parse_from_word being time-ordered and
\* non-overlapping, the word intervals it has built are time-ordered and
\* non-overlapping too, whatever the tokens of the text.
C19_WordIntervalsStayOrdered ==
    OrderedIntervals(ctm_labels) => OrderedIntervals(actual_labels)

\* The sub-tokens the lookup yields for the k-th token of the text.
SubTokens(k) ==
    _lookup(text[k], dictionary_data.words_mapping, dictionary_data.punctuation,
            dictionary_data.clitic_set, dictionary_data.clitic_markers,
            dictionary_data.compound_markers)

\* How many of the sub-tokens of the k-th token are not the empty string.
NonEmptySubTokens(k) ==
    Cardinality({n \in 1..Len(SubTokens(k)) : SubTokens(k)[n] # <<>>})

RECURSIVE SumTo(_, _)
SumTo(f, n) == IF n = 0 THEN 0 ELSE f[n] + SumTo(f, n - 1)

\* C21 as stated: after each token the cursor has moved by as many entries
\* as the lookup yields sub-tokens for the token, so that it equals the sum
\* of the sub-token counts of the tokens taken; with that many entries in
\* the stream the cursor never passes its end.
C21_CursorCountsSubTokens ==
    LET count == [k \in 1..Len(text) |-> Len(SubTokens(k))]
    IN  /\ pw_pc # "raised" => cur_ind = SumTo(count, word_ind)
        /\ Len(ctm_labels) >= SumTo(count, Len(text)) =>
              pw_pc # "raised" /\ cur_ind <= Len(ctm_labels)

\* C21 as amended: the cursor moves by one entry per sub-token that is not
\* the empty string, so that it equals the sum of those counts over the
\* tokens taken; with that many entries in the stream parse_from_word does
\* not raise and the cursor never passes the end of the stream.
C21_CursorCountsNonEmptySubTokens ==
    LET count == [k \in 1..Len(text) |-> NonEmptySubTokens(k)]
    IN  /\ pw_pc # "raised" => cur_ind = SumTo(count, word_ind)
        /\ pw_pc = "raised" => Len(ctm_labels) < SumTo(count, word_ind + 1)
        /\ Len(ctm_labels) >= SumTo(count, Len(text)) =>
              pw_pc # "raised" /\ cur_ind <= Len(ctm_labels)

\* parse_from_word returned for a text with a token that the lookup splits
\* in two and a token one of whose sub-tokens is empty, the stream having
\* one entry per sub-token that is not empty.
C21_ReturnedWithEmptySubToken ==
    /\ pw_pc = "returned"
    /\ Len(text) = 2
    /\ Len(SubTokens(1)) = 2 /\ NonEmptySubTokens(1) = 2
    /\ Len(SubTokens(2)) = 2 /\ NonEmptySubTokens(2) = 1
    /\ cur_ind = 3
    /\ Len(ctm_labels) = 3

\* The entries consumed for the k-th token whose label is the id expected
\* at their place.
MatchingFor(k) ==
    {n \in ConsumedFor(k) : ctm_labels[n].label = WordInts(text[k])[n - CursorBefore(k)]}

\* C22: a word of which at least one consumed entry matches its expected
\* id begins at the least begin and ends at the greatest end of the
\* matching entries; the entries that do not match are consumed and change
\* neither bound.
C22_BoundsOverMatchingEntries ==
    \A k \in 1..Len(actual_labels) :
        MatchingFor(k) # {} =>
            /\ \E n \in MatchingFor(k) : actual_labels[k].begin = ctm_labels[n].begin
            /\ \A n \in MatchingFor(k) : actual_labels[k].begin <= ctm_labels[n].begin
            /\ \E n \in MatchingFor(k) : actual_labels[k].end = ctm_labels[n].end
            /\ \A n \in MatchingFor(k) : actual_labels[k].end >= ctm_labels[n].end

\* A word came back of whose two consumed entries only the second matched:
\* it has the bounds of that entry.
C22_OneOfTwoEntriesMatched ==
    /\ pw_pc = "returned"
    /\ Len(text) >= 1
    /\ Cardinality(ConsumedFor(1)) = 2
    /\ MatchingFor(1) = {2}
    /\ actual_labels[1].begin = ctm_labels[2].begin
    /\ actual_labels[1].end = ctm_labels[2].end

-----------------------------------------------------------------------------
(* Phone remapper: map_to_original_pronunciation *)

\* A pronunciation entry: {"pronunciation": ...} with or without the key
\* "original_pronunciation".
Entry(pron, orig) ==
    [pronunciation |-> pron, has_original |-> TRUE, original_pronunciation |-> orig]
EntryWithoutOriginal(pron) ==
    [pronunciation |-> pron, has_original |-> FALSE, original_pronunciation |-> <<>>]

\* "original_pronunciation" in p
HasOriginal(p) == p.has_original

\* transcription = tuple(x.label for x in phones)
LabelsOf(ps) == [n \in 1..Len(ps) |-> ps[n].label]

\* Python's seq[lo : lo + n], which stops at the end of seq.
Slice(seq, lo, n) ==
    SubSeq(seq, lo + 1, IF lo + n > Len(seq) THEN Len(seq) ELSE lo + n)

\* Lines 388-391: the entry is the whole transcription and names no other
\* original pronunciation.
WholeMatch(p, transcription) ==
    \/ /\ HasOriginal(p)
       /\ transcription = p.pronunciation
       /\ p.pronunciation = p.original_pronunciation
    \/ /\ transcription = p.pronunciation
       /\ ~HasOriginal(p)

\* Lines 387-400: the scan of one sub-word's candidates.  It stops at a whole
\* match; else pron is the first entry whose pronunciation is a prefix of the
\* transcription from transcription_ind on.  pron is <<>> for None and <<p>>
\* for the entry p.
RECURSIVE ScanCandidates(_, _, _, _)
ScanCandidates(pronunciations, transcription, tind, pron) ==
    IF pronunciations = <<>>
    THEN [whole |-> FALSE, pron |-> pron]
    ELSE LET p == Head(pronunciations)
         IN  IF WholeMatch(p, transcription)
             THEN [whole |-> TRUE, pron |-> pron]
             ELSE ScanCandidates(
                      Tail(pronunciations), transcription, tind,
                      IF /\ p.pronunciation =
                               Slice(transcription, tind, Len(p.pronunciation))
                         /\ pron = <<>>
                      THEN <<p>> ELSE pron)

\* Mutant of StripDiacritics: every character that is no letter of a
\* simplified phone is removed, configured as a diacritic or not.
StripDiacriticsUnconfigured(pi, diacritics) ==
    SelectSeq(pi, LAMBDA ch : ch \in {"a", "i"})

\* modded_phone: pi with every diacritic of strip_diacritics replaced by "".
StripDiacritics(pi, diacritics) ==
    SelectSeq(pi, LAMBDA ch : ~IsMarker(diacritics, ch))

\* The interval appended for two aligned phones that are one original phone
\* (lines 429-436).
MergedInterval(cur, next) ==
    [begin |-> cur.begin, end |-> next.end,
     label |-> cur.label \o next.label, utterance |-> cur.utterance]

\* Mutant of WalkStep: the merge appends the spanning interval but moves the
\* cursor by one, as the other branches do.
WalkStepMergeWithoutSkip(pi, diacritics, acc) ==
    LET m == acc.mapping_ind + 1
        cur == acc.phones[m]
        modded_phone == StripDiacritics(pi, diacritics)
    IN  IF pi = cur.label
        THEN [acc EXCEPT !.new_phones = Append(@, cur),
                         !.mapping_ind = @ + 1]
        ELSE IF modded_phone = cur.label
        THEN [acc EXCEPT !.phones[m].label = pi,
                         !.new_phones = Append(@, [cur EXCEPT !.label = pi]),
                         !.mapping_ind = @ + 1]
        ELSE IF /\ acc.mapping_ind # Len(acc.phones) - 1
                /\ modded_phone = cur.label \o acc.phones[m + 1].label
        THEN [acc EXCEPT !.new_phones =
                             Append(@, MergedInterval(cur, acc.phones[m + 1])),
                         !.mapping_ind = @ + 1]
        ELSE [acc EXCEPT !.mapping_ind = @ + 1]

\* Lines 416-438: one turn of "for pi in p['original_pronunciation']" with
\* phones[mapping_ind] in range.
WalkStep(pi, diacritics, acc) ==
    LET m == acc.mapping_ind + 1
        cur == acc.phones[m]
        modded_phone == StripDiacritics(pi, diacritics)
    IN  IF pi = cur.label
        THEN [acc EXCEPT !.new_phones = Append(@, cur),
                         !.mapping_ind = @ + 1]
        ELSE IF modded_phone = cur.label
        THEN [acc EXCEPT !.phones[m].label = pi,
                         !.new_phones = Append(@, [cur EXCEPT !.label = pi]),
                         !.mapping_ind = @ + 1]
        ELSE IF /\ acc.mapping_ind # Len(acc.phones) - 1
                /\ modded_phone = cur.label \o acc.phones[m + 1].label
        THEN [acc EXCEPT !.new_phones =
                             Append(@, MergedInterval(cur, acc.phones[m + 1])),
                         !.mapping_ind = @ + 2]
        ELSE [acc EXCEPT !.mapping_ind = @ + 1]

\* Lines 415-438: the walk over the original phones of the chosen entry.
\* phones[mapping_ind] with mapping_ind past the end raises IndexError.
RECURSIVE WalkOriginal(_, _, _)
WalkOriginal(orig, diacritics, acc) ==
    IF orig = <<>>
    THEN acc
    ELSE IF acc.mapping_ind >= Len(acc.phones)
    THEN [acc EXCEPT !.raised = TRUE]
    ELSE WalkOriginal(Tail(orig), diacritics, WalkStep(Head(orig), diacritics, acc))

\* One turn of "for pronunciations in subpronunciations" that does not end
\* the loop: the chosen entry's original pronunciation is walked.
\* (lines 383-438)
RemapSubword ==
    /\ mp_pc = "loop"
    /\ sub_ind < Len(subpronunciations)
    /\ mapping_ind < Len(phones)
    /\ LET transcription == LabelsOf(phones_in)
           scan == ScanCandidates(subpronunciations[sub_ind + 1], transcription,
                                  transcription_ind, <<>>)
           found == scan.pron # <<>>
           pron == scan.pron[1]
       IN  /\ ~scan.whole
           /\ found
           /\ HasOriginal(pron)
           /\ pron.pronunciation # pron.original_pronunciation
           /\ LET r == WalkOriginal(pron.original_pronunciation, strip_diacritics,
                                    [phones |-> phones, new_phones |-> new_phones,
                                     mapping_ind |-> mapping_ind, raised |-> FALSE])
              IN  /\ phones' = r.phones
                  /\ new_phones' = r.new_phones
                  /\ mapping_ind' = r.mapping_ind
                  /\ transcription_ind' = transcription_ind + Len(pron.pronunciation)
                  /\ IF r.raised
                     THEN mp_pc' = "raised" /\ sub_ind' = sub_ind
                     ELSE mp_pc' = "loop" /\ sub_ind' = sub_ind + 1
    /\ UNCHANGED <<phones_in, subpronunciations, strip_diacritics,
                   dictionary_data, lookupVars, wordVars, batchVars, exportVars,
                   ctmVars, tierVars,
                   streamVars>>

\* A turn that ends the loop with a break (lines 385-386, 392-394, 401-406,
\* 410-414), followed by the return of line 439.
RemapBreak ==
    /\ mp_pc = "loop"
    /\ sub_ind < Len(subpronunciations)
    /\ LET transcription == LabelsOf(phones_in)
           scan == ScanCandidates(subpronunciations[sub_ind + 1], transcription,
                                  transcription_ind, <<>>)
           found == scan.pron # <<>>
           pron == scan.pron[1]
       IN  \/ /\ mapping_ind >= Len(phones)
              /\ UNCHANGED <<new_phones, mapping_ind, transcription_ind>>
           \/ /\ mapping_ind < Len(phones)
              /\ scan.whole \/ ~found
              /\ new_phones' = new_phones \o phones
              /\ mapping_ind' = mapping_ind + Len(phones)
              /\ UNCHANGED transcription_ind
           \/ /\ mapping_ind < Len(phones)
              /\ ~scan.whole
              /\ found
              /\ ~HasOriginal(pron) \/ pron.pronunciation = pron.original_pronunciation
              /\ LET to_extend == Slice(phones, transcription_ind, Len(pron.pronunciation))
                 IN  /\ new_phones' = new_phones \o to_extend
                     /\ mapping_ind' = mapping_ind + Len(to_extend)
                     /\ transcription_ind' = transcription_ind + Len(pron.pronunciation)
    /\ mp_pc' = "returned"
    /\ UNCHANGED <<phones, phones_in, subpronunciations, strip_diacritics, sub_ind,
                   dictionary_data, lookupVars, wordVars, batchVars, exportVars,
                   ctmVars, tierVars,
                   streamVars>>

\* The loop ran out of sub-words: return new_phones (line 439).
RemapReturn ==
    /\ mp_pc = "loop"
    /\ sub_ind = Len(subpronunciations)
    /\ mp_pc' = "returned"
    /\ UNCHANGED <<phones, phones_in, subpronunciations, strip_diacritics, sub_ind,
                   mapping_ind, transcription_ind, new_phones,
                   dictionary_data, lookupVars, wordVars, batchVars, exportVars,
                   ctmVars, tierVars,
                   streamVars>>

\* Most aligned phones of one word, most sub-words of one word.
MaxPhones == 3
MaxSub == 2

\* The simplified phones the aligner outputs.
SimplePhones == {<<"a">>, <<"i">>}

\* Aligned phones follow each other without a gap.
PhoneStreams ==
    UNION {{[k \in 1..n |-> CtmInterval(k - 1, k, ls[k], "utt1")] :
               ls \in [1..n -> SimplePhones]} : n \in 0..MaxPhones}

\* The candidate lists of a sub-word.
CandidateLists ==
    { <<EntryWithoutOriginal(<<<<"a">>>>)>>,
      <<Entry(<<<<"i">>>>, <<<<"i">>>>)>>,
      <<Entry(<<<<"a">>>>, <<<<"a", ":">>>>)>>,
      <<Entry(<<<<"a">>, <<"i">>>>, <<<<"a", "i">>>>)>>,
      <<Entry(<<<<"a">>, <<"i">>>>, <<<<"a", ":">>, <<"i">>>>)>>,
      <<Entry(<<<<"a">>>>, <<<<"a", ":">>>>),
        Entry(<<<<"a">>, <<"i">>>>, <<<<"a", "i">>>>)>>,
      <<Entry(<<<<"a">>>>, <<<<"a">>, <<"i">>>>)>>,
      <<Entry(<<<<"a">>>>, <<<<"i", ":">>>>)>>,
      <<Entry(<<<<"a">>, <<"i">>, <<"a">>>>, <<<<"a", "i">>, <<"a", ":">>>>)>>,
      <<Entry(<<<<"i">>, <<"a">>, <<"i">>>>, <<<<"i">>, <<"a", "i", ":">>>>)>> }

InitRemap ==
    /\ phones_in \in PhoneStreams
    /\ phones = phones_in
    /\ subpronunciations \in UNION {[1..n -> CandidateLists] : n \in 1..MaxSub}
    /\ strip_diacritics \in {<<":">>, <<>>}
    /\ sub_ind = 0
    /\ mapping_ind = 0
    /\ transcription_ind = 0
    /\ new_phones = <<>>
    /\ mp_pc = "loop"
    /\ DictionaryIdle /\ LookupIdle /\ WordIdle /\ BatchIdle /\ ExportIdle
    /\ CtmIdle /\ TierIdle /\ StreamIdle

NextRemap == RemapSubword \/ RemapBreak \/ RemapReturn

SpecRemap == InitRemap /\ [][NextRemap]_vars

-----------------------------------------------------------------------------
(* Claims about map_to_original_pronunciation *)

\* C6: map_to_original_pronunciation never fails: no input makes it raise.
C6_RemapNeverRaises == mp_pc # "raised"

\* The intervals of the output that span the k-th aligned phone.
Representing(k) ==
    {n \in 1..Len(new_phones) :
        /\ new_phones[n].begin <= phones_in[k].begin
        /\ phones_in[k].end <= new_phones[n].end}

\* C7: no frame is dropped: in what map_to_original_pronunciation returns,
\* each aligned phone of the input is represented exactly once, unchanged,
\* relabelled or as one half of a merged interval.
C7_EveryPhoneRepresentedOnce ==
    mp_pc = "returned" =>
        \A k \in 1..Len(phones_in) : Cardinality(Representing(k)) = 1

\* The aligned phones that map_to_original_pronunciation has relabelled.
Relabelled == {k \in 1..Len(phones) : phones[k].label # phones_in[k].label}

\* A label without the characters configured in strip_diacritics.
WithoutConfigured(label) ==
    SelectSeq(label, LAMBDA ch : \A d \in 1..Len(strip_diacritics) :
                                     strip_diacritics[d] # ch)

\* C11: whenever map_to_original_pronunciation has relabelled an aligned
\* phone, the new label without the configured diacritics is the simplified
\* label the phone had before, and the relabelled phone is what was appended
\* to the output for it.
C11_RelabelStripsToSimplifiedLabel ==
    \A k \in Relabelled :
        /\ WithoutConfigured(phones[k].label) = phones_in[k].label
        /\ \E n \in 1..Len(new_phones) : new_phones[n] = phones[k]

\* The remapper returned after relabelling a phone with a label that holds
\* a configured diacritic.
C11_PhoneRelabelled ==
    /\ mp_pc = "returned"
    /\ \E k \in Relabelled : Contains(phones[k].label, ":")
    /\ strip_diacritics = <<":">>

\* The scan of the candidates of the sub-word the loop is at.
CurrentScan ==
    ScanCandidates(subpronunciations[sub_ind + 1], LabelsOf(phones_in),
                   transcription_ind, <<>>)

\* A step that takes a passthrough branch: a candidate is the whole aligned
\* sequence and names no other original pronunciation, or no candidate is a
\* prefix of what remains of the aligned sequence.
PassthroughStep ==
    /\ mp_pc = "loop"
    /\ sub_ind < Len(subpronunciations)
    /\ mapping_ind < Len(phones)
    /\ CurrentScan.whole \/ CurrentScan.pron = <<>>
    /\ mp_pc' = "returned"

\* C25: whenever map_to_original_pronunciation takes a passthrough branch,
\* at the first sub-word or at a later one, what it returns is exactly the
\* aligned intervals it was given, unchanged, in order and without
\* duplicates.
C25_PassthroughReturnsInput ==
    [][PassthroughStep => new_phones' = phones_in]_vars

\* What the walk of the chosen entry has reached after its first j original
\* phones, from the state the step starts in.
WalkedTo(j) ==
    WalkOriginal(SubSeq(CurrentScan.pron[1].original_pronunciation, 1, j),
                 strip_diacritics,
                 [phones |-> phones, new_phones |-> new_phones,
                  mapping_ind |-> mapping_ind, raised |-> FALSE])

\* The j-th original phone of the chosen entry, stripped of the diacritics,
\* is the label of the aligned phone at the cursor followed by the label of
\* the next one.
MergeCase(j) ==
    LET acc == WalkedTo(j - 1)
        pi == CurrentScan.pron[1].original_pronunciation[j]
    IN  /\ ~acc.raised
        /\ acc.mapping_ind + 2 <= Len(acc.phones)
        /\ StripDiacritics(pi, strip_diacritics) =
               acc.phones[acc.mapping_ind + 1].label
                   \o acc.phones[acc.mapping_ind + 2].label

\* A step that walks the original pronunciation of the chosen entry.
WalkingStep ==
    /\ mp_pc = "loop"
    /\ sub_ind < Len(subpronunciations)
    /\ mapping_ind < Len(phones)
    /\ ~CurrentScan.whole
    /\ CurrentScan.pron # <<>>
    /\ HasOriginal(CurrentScan.pron[1])
    /\ CurrentScan.pron[1].pronunciation # CurrentScan.pron[1].original_pronunciation
    /\ mp_pc' \in {"loop", "raised"}

\* C26: when an original phone, stripped of the diacritics, is the label of
\* the current aligned phone followed by the label of the next one, one
\* interval from the current phone's begin to the next phone's end with the
\* joined label takes the place of the two, and the cursor moves by two: the
\* following original phone is compared with the aligned phone after the
\* pair.
C26_MergeSpansPairAndSkipsIt ==
    [][WalkingStep =>
        \A j \in 1..Len(CurrentScan.pron[1].original_pronunciation) :
            MergeCase(j) =>
                LET acc == WalkedTo(j - 1)
                    orig == CurrentScan.pron[1].original_pronunciation
                    cur == acc.phones[acc.mapping_ind + 1]
                    next == acc.phones[acc.mapping_ind + 2]
                    at == Len(acc.new_phones) + 1
                IN  /\ Len(new_phones') >= at
                    /\ new_phones'[at] =
                           [begin |-> cur.begin, end |-> next.end,
                            label |-> cur.label \o next.label,
                            utterance |-> cur.utterance]
                    /\ WalkedTo(j).mapping_ind = acc.mapping_ind + 2
                    /\ j = Len(orig) => mapping_ind' = acc.mapping_ind + 2
                    /\ (/\ j < Len(orig)
                        /\ acc.mapping_ind + 3 <= Len(acc.phones)
                        /\ StripDiacritics(orig[j + 1], strip_diacritics) =
                               acc.phones[acc.mapping_ind + 3].label)
                       => /\ Len(new_phones') >= at + 1
                          /\ new_phones'[at + 1] =
                                 [acc.phones[acc.mapping_ind + 3]
                                     EXCEPT !.label = orig[j + 1]]
       ]_vars

\* A walk that merged a pair and then relabelled the phone after it has
\* returned.
C26_MergedThenRelabelled ==
    /\ mp_pc = "returned"
    /\ Len(phones_in) = 3
    /\ Len(new_phones) = 2
    /\ new_phones[1].begin = 0 /\ new_phones[1].end = 2
    /\ new_phones[1].label = <<"a", "i">>
    /\ new_phones[2].label = <<"a", ":">>

-----------------------------------------------------------------------------
(* The export loop of ctms_to_textgrids_non_mp and the error report *)

FileNames == {"f1", "f2"}

\* Most files of one job.
MaxJobFiles == 3

\* A Python dict as its items in insertion order: d[key] = value keeps the
\* place of a key that is already there.
DictHas(d, key) == \E n \in 1..Len(d) : d[n].name = key

\* Mutant of DictSet: a key that is already there keeps its first value.
DictSetKeepsFirst(d, key, value) ==
    IF DictHas(d, key)
    THEN d
    ELSE Append(d, [name |-> key, text |-> value])

\* Line 543: export_errors[file.name] = ...
DictSet(d, key, value) ==
    IF DictHas(d, key)
    THEN [n \in 1..Len(d) |->
             IF d[n].name = key THEN [name |-> key, text |-> value] ELSE d[n]]
    ELSE Append(d, [name |-> key, text |-> value])

\* ctm_to_textgrid(file, aligner, first_file_write) when it does not raise:
\* a first write replaces what is at the file's output path by what this
\* export wrote, a later write adds to what is there.
ctm_to_textgrid(outs, name, first_write, written) ==
    [outs EXCEPT ![name] = IF first_write THEN <<written>> ELSE Append(@, written)]

\* Lines 569-577: one entry is appended per item, the file is created with
\* its header at the first.
RECURSIVE WriteItems(_, _)
WriteItems(items, log) ==
    IF items = <<>>
    THEN log
    ELSE WriteItems(Tail(items),
                    [exists |-> TRUE, entries |-> Append(log.entries, Head(items))])

\* Mutant of output_textgrid_writing_errors: a report that is there is
\* not removed, the entries are appended to it.
OutputErrorsKeepsStaleReport(log, errors) == WriteItems(errors, log)

\* output_textgrid_writing_errors: a report that is there is removed first.
output_textgrid_writing_errors(log, errors) ==
    WriteItems(errors, [exists |-> FALSE, entries |-> <<>>])

CurrentFile == jobs[job_ind][file_ind + 1]

\* What tells one export from another: its job and its place in the job.
CurrentExport == <<job_ind, file_ind + 1>>

Logged(ok) ==
    [name |-> CurrentFile, job |-> job_ind, place |-> file_ind + 1, ok |-> ok,
     first_file_write |-> CurrentFile \notin processed_files]

\* Lines 474-531: "for j in aligner.corpus.jobs" takes the next job; its
\* word and phone records are parsed and processed_files starts empty.
StartJob ==
    /\ batch_pc = "job"
    /\ job_ind <= Len(jobs)
    /\ processed_files' = {}
    /\ file_ind' = 0
    /\ batch_pc' = "files"
    /\ UNCHANGED <<jobs, debug, job_ind, export_errors, outputs, error_log,
                   export_log, dictionary_data, lookupVars, wordVars, remapVars, exportVars,
                   ctmVars, tierVars,
                   streamVars>>

\* Lines 532-538: the export of the next file of the job succeeds.
ExportFile ==
    /\ batch_pc = "files"
    /\ file_ind < Len(jobs[job_ind])
    /\ outputs' = ctm_to_textgrid(outputs, CurrentFile,
                                  CurrentFile \notin processed_files, CurrentExport)
    /\ processed_files' = processed_files \cup {CurrentFile}
    /\ export_log' = Append(export_log, Logged(TRUE))
    /\ file_ind' = file_ind + 1
    /\ UNCHANGED <<jobs, debug, job_ind, export_errors, error_log, batch_pc,
                   dictionary_data, lookupVars, wordVars, remapVars, exportVars,
                   ctmVars, tierVars,
                   streamVars>>

\* Mutant of ExportFails: the failure is recorded and then ends the loop.
ExportFailsAndStops ==
    /\ batch_pc = "files"
    /\ file_ind < Len(jobs[job_ind])
    /\ ~debug
    /\ export_errors' = DictSet(export_errors, CurrentFile, CurrentExport)
    /\ export_log' = Append(export_log, Logged(FALSE))
    /\ file_ind' = Len(jobs[job_ind])
    /\ job_ind' = Len(jobs)
    /\ UNCHANGED <<jobs, debug, processed_files, outputs, error_log,
                   batch_pc, dictionary_data, lookupVars, wordVars, remapVars, exportVars,
                   ctmVars, tierVars,
                   streamVars>>

\* Lines 539-545 with debug off: the export raises, the error text is kept
\* under the file's name and the loop goes on.
ExportFails ==
    /\ batch_pc = "files"
    /\ file_ind < Len(jobs[job_ind])
    /\ ~debug
    /\ export_errors' = DictSet(export_errors, CurrentFile, CurrentExport)
    /\ export_log' = Append(export_log, Logged(FALSE))
    /\ file_ind' = file_ind + 1
    /\ job_ind' = job_ind
    /\ UNCHANGED <<jobs, debug, processed_files, outputs, error_log,
                   batch_pc, dictionary_data, lookupVars, wordVars, remapVars, exportVars,
                   ctmVars, tierVars,
                   streamVars>>

\* Mutant of ExportRaises: the except branch forgets the debug flag, keeps
\* the error text and goes on.
ExportRaisesSwallowed ==
    /\ batch_pc = "files"
    /\ file_ind < Len(jobs[job_ind])
    /\ debug
    /\ export_errors' = DictSet(export_errors, CurrentFile, CurrentExport)
    /\ export_log' = Append(export_log, Logged(FALSE))
    /\ file_ind' = file_ind + 1
    /\ UNCHANGED <<jobs, debug, job_ind, processed_files, outputs, error_log,
                   batch_pc, dictionary_data, lookupVars, wordVars, remapVars,
                   exportVars, ctmVars, tierVars,
                   streamVars>>

\* Lines 539-541 with debug on: the exception leaves the function.
ExportRaises ==
    /\ batch_pc = "files"
    /\ file_ind < Len(jobs[job_ind])
    /\ debug
    /\ export_log' = Append(export_log, Logged(FALSE))
    /\ batch_pc' = "raised"
    /\ UNCHANGED <<jobs, debug, job_ind, file_ind, processed_files, export_errors,
                   outputs, error_log, dictionary_data, lookupVars, wordVars,
                   remapVars, exportVars,
                   ctmVars, tierVars,
                   streamVars>>

\* The files of the job are exhausted.
EndJob ==
    /\ batch_pc = "files"
    /\ file_ind = Len(jobs[job_ind])
    /\ job_ind' = job_ind + 1
    /\ batch_pc' = "job"
    /\ UNCHANGED <<jobs, debug, file_ind, processed_files, export_errors, outputs,
                   error_log, export_log, dictionary_data, lookupVars, wordVars,
                   remapVars, exportVars,
                   ctmVars, tierVars,
                   streamVars>>

\* Lines 546-552: after the last job the report is written.
WriteErrors ==
    /\ batch_pc = "job"
    /\ job_ind > Len(jobs)
    /\ error_log' = output_textgrid_writing_errors(error_log, export_errors)
    /\ batch_pc' = "done"
    /\ UNCHANGED <<jobs, debug, job_ind, file_ind, processed_files, export_errors,
                   outputs, export_log, dictionary_data, lookupVars, wordVars,
                   remapVars, exportVars,
                   ctmVars, tierVars,
                   streamVars>>

JobFileLists == UNION {[1..n -> FileNames] : n \in 0..MaxJobFiles}

\* A report left by an earlier run.
StaleLog == [exists |-> TRUE, entries |-> <<[name |-> "old", text |-> <<0, 0>>]>>]
NoLog == [exists |-> FALSE, entries |-> <<>>]

InitBatch ==
    /\ jobs \in UNION {[1..n -> JobFileLists] : n \in {1, 2}}
    /\ debug \in BOOLEAN
    /\ job_ind = 1
    /\ file_ind = 0
    /\ processed_files = {}
    /\ export_errors = <<>>
    /\ outputs = [f \in FileNames |-> <<>>]
    /\ error_log \in {NoLog, StaleLog}
    /\ export_log = <<>>
    /\ batch_pc = "job"
    /\ DictionaryIdle /\ LookupIdle /\ WordIdle /\ RemapIdle /\ ExportIdle
    /\ CtmIdle /\ TierIdle /\ StreamIdle

NextBatch ==
    StartJob \/ ExportFile \/ ExportFails \/ ExportRaises \/ EndJob \/ WriteErrors

SpecBatch == InitBatch /\ [][NextBatch]_vars

-----------------------------------------------------------------------------
(* Claims about the batch *)

\* The exports of the batch, N of them.
TotalExports == SumLen(jobs)

Failed == {n \in 1..Len(export_log) : ~export_log[n].ok}
Succeeded == {n \in 1..Len(export_log) : export_log[n].ok}

\* C1: with debug off and K of the N exports raising, the batch runs to
\* completion, every export that did not raise has its output written and
\* the report lists exactly K entries, one per failing export.
C1_ReportListsEveryFailure ==
    (batch_pc = "done" /\ ~debug) =>
        /\ Len(export_log) = TotalExports
        /\ \A n \in Succeeded : outputs[export_log[n].name] # <<>>
        /\ Len(error_log.entries) = Cardinality(Failed)

\* The files of all jobs, in the order the loops take them.
AllFiles == Flatten(jobs)

\* The error text kept for a name is that of its last failing export.
LastFailureKept(name) ==
    LET ns == {n \in Failed : export_log[n].name = name}
        last == CHOOSE n \in ns : \A m \in ns : m <= n
    IN  ns # {} =>
            \E k \in 1..Len(export_errors) :
                /\ export_errors[k].name = name
                /\ export_errors[k].text = <<export_log[last].job, export_log[last].place>>

\* A step in which an export raised.
ExportFailed ==
    /\ Len(export_log') = Len(export_log) + 1
    /\ ~export_log'[Len(export_log')].ok

\* C2: with debug off a failing export never aborts the batch: the loop
\* never leaves by an exception, the error text is kept under the file's
\* name, once the batch is done every file of every job has been exported in
\* order, and the failing step leaves the outputs already written as they
\* were.
C2_FailureDoesNotAbortBatch ==
    /\ [](~debug => batch_pc # "raised")
    /\ [](~debug => \A name \in FileNames : LastFailureKept(name))
    /\ []((~debug /\ batch_pc = "done") =>
             [n \in 1..Len(export_log) |-> export_log[n].name] = AllFiles)
    /\ [][(~debug /\ ExportFailed) => outputs' = outputs]_vars

\* A batch is done in which an export failed after one that succeeded, and a
\* later file of the same job and a file of the next job were still exported.
C2_FailureThenMoreExports ==
    /\ batch_pc = "done"
    /\ ~debug
    /\ \E h, i, j, k \in 1..Len(export_log) :
          /\ h < i /\ i < j /\ j < k
          /\ export_log[h].ok /\ ~export_log[i].ok
          /\ export_log[j].ok /\ export_log[k].ok
          /\ export_log[j].job = export_log[i].job
          /\ export_log[k].job > export_log[i].job
          /\ outputs[export_log[h].name] # <<>>

\* The exports the batch has not reached.
ExportsLeft == TotalExports - Len(export_log)

\* C14: with debug on, the first export that fails is the last thing the
\* batch does: it leaves the function by the exception, no export follows
\* it, export_errors stays empty and the report is not written, so that
\* output_errors.txt is as the previous run left it.
C14_DebugFailureAbortsBatch ==
    debug =>
        /\ Cardinality(Failed) <= 1
        /\ export_errors = <<>>
        /\ Failed # {} =>
              /\ batch_pc = "raised"
              /\ Failed = {Len(export_log)}
              /\ error_log \in {NoLog, StaleLog}
        /\ batch_pc = "raised" => Failed # {}
        /\ batch_pc = "done" => ~error_log.exists

\* With debug on an export failed after one that succeeded, with files of
\* this job and of a later job not yet exported.
C14_AbortedWithExportsLeft ==
    /\ debug
    /\ batch_pc = "raised"
    /\ Succeeded # {}
    /\ file_ind + 1 < Len(jobs[job_ind])
    /\ job_ind < Len(jobs)
    /\ ExportsLeft >= 2
    /\ error_log = StaleLog

\* The names of the files of which an export of this batch failed.
FailedNames == {export_log[n].name : n \in Failed}

\* C15: after a batch that ran to completion output_errors.txt exists if
\* and only if an export of this batch failed, and its entries are those of
\* this batch: one per file name that failed, with an error text of a
\* failed export of that file, and nothing of a report left by an earlier
\* run.
C15_ReportIsOfThisBatchOnly ==
    batch_pc = "done" =>
        /\ error_log.exists <=> Failed # {}
        /\ {error_log.entries[k].name : k \in 1..Len(error_log.entries)} = FailedNames
        /\ \A k \in 1..Len(error_log.entries) :
              \E n \in Failed :
                  /\ export_log[n].name = error_log.entries[k].name
                  /\ error_log.entries[k].text = <<export_log[n].job, export_log[n].place>>

\* A batch ran to completion with a failed and a succeeded export and left
\* a report.
C15_ReportWritten ==
    /\ batch_pc = "done"
    /\ Failed # {}
    /\ Succeeded # {}
    /\ error_log.exists

\* The exports before the n-th that wrote the file of the n-th.
EarlierWrites(n) ==
    {m \in 1..(n - 1) :
        export_log[m].ok /\ export_log[m].name = export_log[n].name}

\* C29: over the whole run a file is created from scratch only by the
\* first successful export of its name; every later export of that name, in
\* the same job or in a later one, is an incremental write, so that what an
\* earlier job wrote to the file is still there.
C29_OnlyFirstExportCreatesFile ==
    /\ \A n \in 1..Len(export_log) :
           export_log[n].first_file_write <=> EarlierWrites(n) = {}
    /\ \A n \in Succeeded :
           \E k \in 1..Len(outputs[export_log[n].name]) :
               outputs[export_log[n].name][k] =
                   <<export_log[n].job, export_log[n].place>>

-----------------------------------------------------------------------------
(* Annotation exporter: export_textgrid *)

(* Times, file.duration and frame_shift are counted in millionths: a time   *)
(* of 990000 is 0.99 s, a frame_shift of 10000000 is the argument 10 (ms),  *)
(* one of 10000 the argument 0.01 (s).                                      *)

\* The integer nearest to n / d, a tie going to the even one (round()).
RoundDiv(n, d) ==
    LET q == n \div d
        r == n % d
    IN  IF 2 * r < d THEN q
        ELSE IF 2 * r > d THEN q + 1
        ELSE IF q % 2 = 0 THEN q ELSE q + 1

\* Lines 684-685: a frame_shift above 1 is in milliseconds and becomes
\* round(frame_shift / 1000, 4) seconds.
FrameShiftSeconds(fs) ==
    IF fs > 1000000 THEN 100 * RoundDiv(fs, 100000) ELSE fs

\* Mutant of FixRounding: an end exactly frame_shift before the end of the
\* file is moved too.
FixRoundingInclusive(iv, duration, fs) ==
    IF duration - iv.end <= fs THEN [iv EXCEPT !.end = duration] ELSE iv

\* Lines 724-725 and 728-729: "Fix rounding issues".
FixRounding(iv, duration, fs) ==
    IF duration - iv.end < fs THEN [iv EXCEPT !.end = duration] ELSE iv

\* to_tg_interval: Interval(begin, end, label)
to_tg_interval(iv) == [begin |-> iv.begin, end |-> iv.end, label |-> iv.label]

\* A tier name: "words" / "phones" are <<"", kind>>, "{speaker} - words" /
\* "{speaker} - phones" are <<speaker, kind>>.
TierName(speaker, kind) == <<speaker, kind>>

IntervalTier(name, entries) == [name |-> name, entries |-> entries]

HasTier(tiers, name) == \E n \in 1..Len(tiers) : tiers[n].name = name

\* tg.addTier(tier) for a name the Textgrid does not hold yet.
addTier(tiers, tier) == Append(tiers, tier)

\* tg.replaceTier(name, tier) for a name the Textgrid holds: the new tier
\* takes the place of the old one.
replaceTier(tiers, name, tier) ==
    [n \in 1..Len(tiers) |-> IF tiers[n].name = name THEN tier ELSE tiers[n]]

\* Lines 692-700: one empty words/phones pair per speaker of the file.
RECURSIVE SpeakerTiers(_)
SpeakerTiers(speakers) ==
    IF speakers = <<>> THEN <<>>
    ELSE <<IntervalTier(TierName(Head(speakers), "words"), <<>>),
           IntervalTier(TierName(Head(speakers), "phones"), <<>>)>>
         \o SpeakerTiers(Tail(speakers))

UnnamedPair ==
    <<IntervalTier(TierName("", "words"), <<>>),
      IntervalTier(TierName("", "phones"), <<>>)>>

\* Mutant of MultiSpeaker: a file with one speaker counts as one with many.
MultiSpeakerFromOne == Len(file.speaker_ordering) >= 1

\* Lines 692 and 732: len(file.speaker_ordering) > 1
MultiSpeaker == Len(file.speaker_ordering) > 1

\* Lines 686-707: a first write starts from a fresh Textgrid.
ExportCreate ==
    /\ ex_pc = "open"
    /\ first_file_write
    /\ tg' = IF MultiSpeaker THEN SpeakerTiers(file.speaker_ordering) ELSE UnnamedPair
    /\ ex_pc' = "tiers"
    /\ UNCHANGED <<file, speaker_data, speaker_data_in, frame_shift, first_file_write,
                   disk, spk_ind, dictionary_data, lookupVars, wordVars, remapVars,
                   batchVars,
                   ctmVars, tierVars,
                   streamVars>>

\* Lines 708-717: a later write opens the file at output_path and adds the
\* tiers "words" and "phones" to it.  openTextgrid raises when there is no
\* file, addTier when the Textgrid already holds a tier of that name.
ExportOpen ==
    /\ ex_pc = "open"
    /\ ~first_file_write
    /\ IF ~disk.exists \/ HasTier(disk.tiers, TierName("", "words"))
          \/ HasTier(disk.tiers, TierName("", "phones"))
       THEN /\ ex_pc' = "raised"
            /\ tg' = IF disk.exists THEN disk.tiers ELSE tg
       ELSE /\ ex_pc' = "tiers"
            /\ tg' = addTier(addTier(disk.tiers, UnnamedPair[1]), UnnamedPair[2])
    /\ UNCHANGED <<file, speaker_data, speaker_data_in, frame_shift, first_file_write,
                   disk, spk_ind, dictionary_data, lookupVars, wordVars, remapVars,
                   batchVars,
                   ctmVars, tierVars,
                   streamVars>>

\* Lines 718-741: one turn of "for speaker, data in speaker_data.items()".
\* The ends are fixed in the intervals themselves; replaceTier raises when
\* the Textgrid holds no tier of that name.
ExportSpeaker ==
    /\ ex_pc = "tiers"
    /\ spk_ind < Len(speaker_data)
    /\ LET data == speaker_data[spk_ind + 1]
           fs == FrameShiftSeconds(frame_shift)
           words == [n \in 1..Len(data.words) |->
                        FixRounding(data.words[n], file.duration, fs)]
           phns == [n \in 1..Len(data.phones) |->
                       FixRounding(data.phones[n], file.duration, fs)]
           who == IF MultiSpeaker THEN data.speaker ELSE ""
           word_tier == IntervalTier(TierName(who, "words"),
                                     [n \in 1..Len(words) |-> to_tg_interval(words[n])])
           phone_tier == IntervalTier(TierName(who, "phones"),
                                      [n \in 1..Len(phns) |-> to_tg_interval(phns[n])])
       IN  /\ speaker_data' = [speaker_data EXCEPT ![spk_ind + 1].words = words,
                                                    ![spk_ind + 1].phones = phns]
           /\ IF HasTier(tg, word_tier.name) /\ HasTier(tg, phone_tier.name)
              THEN /\ tg' = replaceTier(replaceTier(tg, word_tier.name, word_tier),
                                        phone_tier.name, phone_tier)
                   /\ spk_ind' = spk_ind + 1
                   /\ ex_pc' = "tiers"
              ELSE /\ tg' = IF HasTier(tg, word_tier.name)
                            THEN replaceTier(tg, word_tier.name, word_tier)
                            ELSE tg
                   /\ spk_ind' = spk_ind
                   /\ ex_pc' = "raised"
    /\ UNCHANGED <<file, speaker_data_in, frame_shift, first_file_write, disk,
                   dictionary_data, lookupVars, wordVars, remapVars, batchVars,
                   ctmVars, tierVars,
                   streamVars>>

\* Line 743: tg.save(output_path, ...)
ExportSave ==
    /\ ex_pc = "tiers"
    /\ spk_ind = Len(speaker_data)
    /\ disk' = [exists |-> TRUE, tiers |-> tg]
    /\ ex_pc' = "saved"
    /\ UNCHANGED <<file, speaker_data, speaker_data_in, frame_shift, first_file_write,
                   tg, spk_ind, dictionary_data, lookupVars, wordVars, remapVars,
                   batchVars,
                   ctmVars, tierVars,
                   streamVars>>

\* Most intervals of one tier.
MaxIntervals == 2

\* The file lasts one second.
Durations == {1000000}

\* Where an interval may end: mid-file, exactly one 10 ms frame before the
\* end of the file, half a frame before it, at it.
EndPoints == {500000, 990000, 995000, 1000000}

\* The intervals that end at the points of ends, each beginning where the
\* one before it ended.
RECURSIVE TierOver(_, _, _)
TierOver(from, ends, label) ==
    IF ends = {} THEN <<>>
    ELSE LET e == CHOOSE x \in ends : \A y \in ends : x <= y
         IN  <<CtmInterval(from, e, label, "utt1")>> \o TierOver(e, ends \ {e}, label)

EndSets == {E \in SUBSET EndPoints : Cardinality(E) <= MaxIntervals}

\* frame_shift: 10 (ms), 10.06 (ms), 0.01 (s) and 1, which is taken as 1 s.
FrameShifts == {10000000, 10060000, 10000, 1000000}

Speakers == <<"s1", "s2">>

SpeakerOrderings == {<<Speakers[1]>>, Speakers}

\* The speakers of speaker_data are speakers of the file, in any order.
SpeakerLists(ordering) ==
    {<<>>} \cup {<<ordering[n]>> : n \in 1..Len(ordering)}
           \cup {<<ordering[q[1]], ordering[q[2]]>> :
                    q \in {r \in (1..Len(ordering)) \X (1..Len(ordering)) :
                              r[1] # r[2]}}

\* The file a first write of this model leaves, as a later write finds it.
EarlierWrite(ordering) ==
    [exists |-> TRUE,
     tiers |-> IF Len(ordering) > 1 THEN SpeakerTiers(ordering) ELSE UnnamedPair]
NoFile == [exists |-> FALSE, tiers |-> <<>>]

InitExport ==
    /\ \E d \in Durations, o \in SpeakerOrderings :
          /\ file = [duration |-> d, speaker_ordering |-> o]
          /\ \E spk \in SpeakerLists(o), W \in EndSets, P \in EndSets :
                speaker_data = [n \in 1..Len(spk) |->
                                   [speaker |-> spk[n],
                                    words |-> TierOver(0, W, <<"a">>),
                                    phones |-> TierOver(0, P, <<"i">>)]]
          /\ disk \in {NoFile, EarlierWrite(o)}
    /\ speaker_data_in = speaker_data
    /\ frame_shift \in FrameShifts
    /\ first_file_write \in BOOLEAN
    /\ tg = <<>>
    /\ spk_ind = 0
    /\ ex_pc = "open"
    /\ DictionaryIdle /\ LookupIdle /\ WordIdle /\ RemapIdle /\ BatchIdle
    /\ CtmIdle /\ TierIdle /\ StreamIdle

NextExport == ExportCreate \/ ExportOpen \/ ExportSpeaker \/ ExportSave

SpecExport == InitExport /\ [][NextExport]_vars

-----------------------------------------------------------------------------
(* Claims about export_textgrid *)

\* The tier of speaker_data's n-th speaker in the saved file.
SavedTier(n, kind) ==
    LET name == TierName(IF MultiSpeaker THEN speaker_data_in[n].speaker ELSE "", kind)
        k == CHOOSE k \in 1..Len(disk.tiers) : disk.tiers[k].name = name
    IN  disk.tiers[k].entries

\* The last speaker of speaker_data that writes the tier its n-th speaker
\* writes: in a file with one speaker every speaker writes "words"/"phones".
IsLastWriter(n) ==
    MultiSpeaker => \A m \in (n + 1)..Len(speaker_data_in) :
                        speaker_data_in[m].speaker # speaker_data_in[n].speaker

\* The frame shift in seconds as section 4.6 gives it.
ShiftInSeconds == FrameShiftSeconds(frame_shift)

\* C10 as stated: in the saved file every interval whose end was within
\* frame_shift of file.duration, that far from it or nearer, ends at
\* file.duration.
C10_EndWithinFrameShiftIsSnapped ==
    ex_pc = "saved" =>
        \A n \in 1..Len(speaker_data_in) : IsLastWriter(n) =>
            /\ \A k \in 1..Len(speaker_data_in[n].words) :
                  file.duration - speaker_data_in[n].words[k].end <= ShiftInSeconds
                      => SavedTier(n, "words")[k].end = file.duration
            /\ \A k \in 1..Len(speaker_data_in[n].phones) :
                  file.duration - speaker_data_in[n].phones[k].end <= ShiftInSeconds
                      => SavedTier(n, "phones")[k].end = file.duration

\* What the end of an interval is after the export, as amended.
SnappedEnd(iv) ==
    IF file.duration - iv.end < ShiftInSeconds THEN file.duration ELSE iv.end

\* C10 as amended: in the saved file every interval whose end was less than
\* frame_shift before file.duration ends at file.duration, and an interval
\* that ended frame_shift or more before it keeps its end.
C10_EndLessThanFrameShiftIsSnapped ==
    ex_pc = "saved" =>
        \A n \in 1..Len(speaker_data_in) : IsLastWriter(n) =>
            /\ \A k \in 1..Len(speaker_data_in[n].words) :
                  SavedTier(n, "words")[k].end = SnappedEnd(speaker_data_in[n].words[k])
            /\ \A k \in 1..Len(speaker_data_in[n].phones) :
                  SavedTier(n, "phones")[k].end = SnappedEnd(speaker_data_in[n].phones[k])

\* A file was saved with a word that ended half a frame before the end of
\* the file and a phone that ended a whole frame before it, the frame shift
\* given as 10 ms.
C10_SavedNearTheEnd ==
    /\ ex_pc = "saved"
    /\ frame_shift = 10000000
    /\ Len(speaker_data_in) > 0
    /\ \E k \in 1..Len(speaker_data_in[1].words) :
          speaker_data_in[1].words[k].end = 995000
    /\ \E k \in 1..Len(speaker_data_in[1].phones) :
          speaker_data_in[1].phones[k].end = 990000

\* The tier names of the output format for the file, in the order of
\* file.speaker_ordering.
RECURSIVE PairNames(_)
PairNames(speakers) ==
    IF speakers = <<>> THEN <<>>
    ELSE <<<<Head(speakers), "words">>, <<Head(speakers), "phones">>>>
         \o PairNames(Tail(speakers))

FormatNames ==
    IF Len(file.speaker_ordering) > 1
    THEN PairNames(file.speaker_ordering)
    ELSE <<<<"", "words">>, <<"", "phones">>>>

\* The entries of the tier of that name in the saved file.
Saved(name) ==
    LET k == CHOOSE k \in 1..Len(disk.tiers) : disk.tiers[k].name = name
    IN  disk.tiers[k].entries

\* The speaker of speaker_data that owns the pair of a speaker of the file.
OwnerOf(speaker) ==
    {n \in 1..Len(speaker_data) :
        Len(file.speaker_ordering) > 1 => speaker_data[n].speaker = speaker}

\* What a tier holds of a list of intervals: begin, end and label of each.
AsEntries(ivs) ==
    [n \in 1..Len(ivs) |->
        [begin |-> ivs[n].begin, end |-> ivs[n].end, label |-> ivs[n].label]]

\* C16: a first-write export_textgrid does not raise, and the file it saves
\* has exactly the tiers of the output format: "{speaker} - words" and
\* "{speaker} - phones" for each speaker of a file with more than one
\* speaker, "words" and "phones" otherwise; the pair of a speaker of
\* speaker_data holds that speaker's intervals, the pair of any other
\* speaker is empty.
C16_FirstWriteTiers ==
    first_file_write =>
        /\ ex_pc # "raised"
        /\ ex_pc = "saved" =>
              /\ [k \in 1..Len(disk.tiers) |-> disk.tiers[k].name] = FormatNames
              /\ \A k \in 1..Len(FormatNames) :
                    LET name == FormatNames[k]
                        own == OwnerOf(name[1])
                    IN  IF own = {}
                        THEN Saved(name) = <<>>
                        ELSE \A n \in own :
                                Saved(name) =
                                    AsEntries(IF name[2] = "words"
                                              THEN speaker_data[n].words
                                              ELSE speaker_data[n].phones)

\* A first write saved a file of two speakers of which only the second had
\* intervals.
C16_FirstWriteSaved ==
    /\ ex_pc = "saved"
    /\ first_file_write
    /\ Len(file.speaker_ordering) = 2
    /\ Len(speaker_data) = 1
    /\ speaker_data[1].speaker = file.speaker_ordering[2]
    /\ Len(speaker_data[1].words) = 2

\* The speakers of this call.
CallSpeakers == {speaker_data[n].speaker : n \in 1..Len(speaker_data)}

\* C17: an export_textgrid call with first_write false saves a file whose
\* tier names are those of the output format and no others; the tiers of
\* the speakers of this call hold their intervals and every tier an earlier
\* export wrote for another speaker is as it was.
C17_LaterWriteKeepsFormat ==
    (~first_file_write /\ ex_pc = "saved") =>
        /\ \A k \in 1..Len(disk.tiers) :
              \E f \in 1..Len(FormatNames) : disk.tiers[k].name = FormatNames[f]
        /\ \A k \in 1..Len(FormatNames) :
              LET name == FormatNames[k]
                  own == OwnerOf(name[1])
              IN  IF own = {}
                  THEN Saved(name) = <<>>
                  ELSE \A n \in own :
                          Saved(name) =
                              AsEntries(IF name[2] = "words"
                                        THEN speaker_data[n].words
                                        ELSE speaker_data[n].phones)

-----------------------------------------------------------------------------
(* Record parser: process_ctm_line *)

(* Times are counted in hundred-thousandths of a second here, so that a     *)
(* field may carry one decimal more than round(x, 4) keeps.                 *)

\* str.split(sep) for a one-character sep: the pieces between the
\* separators, empty pieces included; "" gives [""].
RECURSIVE split(_, _)
split(s, sep) ==
    IF ~Contains(s, sep)
    THEN <<s>>
    ELSE LET i == CHOOSE i \in 1..Len(s) :
                      s[i] = sep /\ \A j \in 1..(i - 1) : s[j] # sep
         IN  <<SubSeq(s, 1, i - 1)>> \o split(SubSeq(s, i + 1, Len(s)), sep)

Digits == <<"0", "1", "2", "3", "4", "5", "6", "7", "8", "9">>
IsDigit(ch) == \E d \in 1..10 : Digits[d] = ch
DigitValue(ch) == (CHOOSE d \in 1..10 : Digits[d] = ch) - 1

\* The number a string of digits reads as.
RECURSIVE DigitsValue(_)
DigitsValue(ds) ==
    IF ds = <<>> THEN 0
    ELSE 10 * DigitsValue(SubSeq(ds, 1, Len(ds) - 1)) + DigitValue(ds[Len(ds)])

\* ds followed by zeros up to n characters.
RECURSIVE PadRight(_, _)
PadRight(ds, n) == IF Len(ds) >= n THEN ds ELSE PadRight(Append(ds, "0"), n)

\* float(s) for the plain decimal notation digits[.digits] with at most
\* five decimals: ok is FALSE where float raises ValueError.
float(s) ==
    LET parts == split(s, ".")
        whole == parts[1]
        frac == IF Len(parts) = 2 THEN parts[2] ELSE <<>>
        wellFormed ==
            /\ Len(parts) <= 2
            /\ Len(whole) + Len(frac) > 0
            /\ Len(frac) <= 5
            /\ \A i \in 1..Len(whole) : IsDigit(whole[i])
            /\ \A i \in 1..Len(frac) : IsDigit(frac[i])
    IN  IF wellFormed
        THEN [ok |-> TRUE,
              value |-> 100000 * DigitsValue(whole) + DigitsValue(PadRight(frac, 5))]
        ELSE [ok |-> FALSE, value |-> 0]

\* round(x, 4)
Round4(x) == 10 * RoundDiv(x, 10)

\* Mutant of EndOf: the sum is not rounded.
EndOfUnrounded(begin, duration) == begin + duration

\* Line 111: end = round(begin + duration, 4)
EndOf(begin, duration) == Round4(begin + duration)

Raised == [raised |-> TRUE]
Returned(v) == [raised |-> FALSE, value |-> v]

\* Lines 107-113.  line[k] is fields[k + 1]; an index past the end raises
\* IndexError, float of a field that is no number raises ValueError.
process_ctm_line(ln) ==
    LET fields == split(ln, " ")
        utt == fields[1]
    IN  IF Len(fields) < 3 THEN Raised
        ELSE IF ~float(fields[3]).ok THEN Raised
        ELSE IF Len(fields) < 4 THEN Raised
        ELSE IF ~float(fields[4]).ok THEN Raised
        ELSE IF Len(fields) < 5 THEN Raised
        ELSE LET begin == Round4(float(fields[3]).value)
                 duration == float(fields[4]).value
                 end == EndOf(begin, duration)
                 label == fields[5]
             IN  Returned(CtmInterval(begin, end, label, utt))

\* The call of process_ctm_line(line) returns.
ProcessCtmLine ==
    /\ ctm_pc = "call"
    /\ ~process_ctm_line(line).raised
    /\ ctm_out' = process_ctm_line(line).value
    /\ ctm_pc' = "returned"
    /\ UNCHANGED <<line, ctm_record, dictionary_data, lookupVars, wordVars, remapVars,
                   batchVars, exportVars, tierVars,
                   streamVars>>

\* The call of process_ctm_line(line) raises.
ProcessCtmLineRaises ==
    /\ ctm_pc = "call"
    /\ process_ctm_line(line).raised
    /\ ctm_pc' = "raised"
    /\ UNCHANGED <<line, ctm_record, ctm_out, dictionary_data, lookupVars, wordVars,
                   remapVars, batchVars, exportVars, tierVars,
                   streamVars>>

\* The decimal digits of a natural number.
RECURSIVE DigitsOf(_)
DigitsOf(n) ==
    IF n < 10 THEN <<Digits[n + 1]>> ELSE Append(DigitsOf(n \div 10), Digits[(n % 10) + 1])

\* ds after zeros up to n characters.
RECURSIVE PadLeft(_, _)
PadLeft(ds, n) == IF Len(ds) >= n THEN ds ELSE PadLeft(<<"0">> \o ds, n)

\* A time as the aligner writes it: four decimals, five when the time has
\* a fifth.
WriteTime(x) ==
    DigitsOf(x \div 100000) \o <<".">> \o
    (IF x % 10 = 0 THEN PadLeft(DigitsOf((x % 100000) \div 10), 4)
     ELSE PadLeft(DigitsOf(x % 100000), 5))

\* " ".join(fields)
RECURSIVE join(_)
join(fields) ==
    IF fields = <<>> THEN <<>>
    ELSE IF Len(fields) = 1 THEN fields[1]
    ELSE fields[1] \o <<" ">> \o join(Tail(fields))

\* The times of the records: 2.0, 0.12346, 0.00004 and 0 for begin; 0.5,
\* 0.12347 and 0.00004 for duration.  None lies halfway between two
\* four-decimal numbers.
BeginTimes == {200000, 12346, 4, 0}
DurationTimes == {50000, 12347, 4}

\* The fields a record may carry: utterance, channel, begin, duration and
\* label, and two more after them.
FieldsOf(rec) ==
    <<rec.utterance, rec.channel, WriteTime(rec.begin), WriteTime(rec.duration),
      rec.label, <<"x">>, <<"9">>>>

\* The fields at the places of kept, in order.
RECURSIVE Keep(_, _, _)
Keep(fields, kept, k) ==
    IF k > Len(fields) THEN <<>>
    ELSE (IF k \in kept THEN <<fields[k]>> ELSE <<>>) \o Keep(fields, kept, k + 1)

CtmRecords ==
    [utterance : {<<"u">>}, channel : {<<"1">>, <<"2">>}, begin : BeginTimes,
     duration : DurationTimes, label : {<<"5">>, <<"1", "7">>},
     kept : SUBSET (1..7)]

InitCtm ==
    /\ ctm_record \in CtmRecords
    /\ line = join(Keep(FieldsOf(ctm_record), ctm_record.kept, 1))
    /\ ctm_out = NotRun
    /\ ctm_pc = "call"
    /\ DictionaryIdle /\ LookupIdle /\ WordIdle /\ RemapIdle /\ BatchIdle
    /\ ExportIdle /\ TierIdle /\ StreamIdle

NextCtm == ProcessCtmLine \/ ProcessCtmLineRaises

SpecCtm == InitCtm /\ [][NextCtm]_vars

-----------------------------------------------------------------------------
(* Claims about process_ctm_line *)

\* The line is the record "utterance channel begin duration label".
WholeRecord == ctm_record.kept = 1..5

\* C12: on a record "utterance channel begin duration label"
\* process_ctm_line returns, and the interval has the first field as its
\* utterance, the third field rounded to four decimals as its begin, that
\* begin plus the fourth field, rounded to four decimals, as its end, and
\* the fifth field as its label, whatever the channel is.
C12_RecordParsedToInterval ==
    WholeRecord =>
        /\ ctm_pc # "raised"
        /\ ctm_pc = "returned" =>
              /\ ctm_out.utterance = ctm_record.utterance
              /\ ctm_out.begin = 10 * RoundDiv(ctm_record.begin, 10)
              /\ ctm_out.end = 10 * RoundDiv(ctm_out.begin + ctm_record.duration, 10)
              /\ ctm_out.label = ctm_record.label

\* "u 1 2.0000 0.5000 5" was parsed to begin 2.0, end 2.5, label "5",
\* utterance "u".
C12_ExampleParsed ==
    /\ ctm_pc = "returned"
    /\ line = <<"u", " ", "1", " ", "2", ".", "0", "0", "0", "0", " ",
                "0", ".", "5", "0", "0", "0", " ", "5">>
    /\ ctm_out = CtmInterval(200000, 250000, <<"5">>, <<"u">>)

\* A record with begin 0.12346 and duration 0.12347 was parsed: both the
\* begin and the sum are rounded.
C12_RoundedParsed ==
    /\ ctm_pc = "returned"
    /\ WholeRecord
    /\ ctm_record.begin = 12346
    /\ ctm_record.duration = 12347
    /\ ctm_out.begin = 12350 /\ ctm_out.end = 24700

\* C13: process_ctm_line never returns an interval for a line that does not
\* have exactly five fields.
C13_ReturnsOnlyForFiveFields ==
    ctm_pc = "returned" => Len(split(line, " ")) = 5

-----------------------------------------------------------------------------
(* Tier builder: generate_tiers *)

\* map_to_original_pronunciation as the function generate_tiers calls: the
\* loop "for pronunciations in subpronunciations" (lines 383-438) from the
\* state st on, with the steps of RemapSubword and RemapBreak.
RECURSIVE RemapLoop(_, _, _, _)
RemapLoop(subs, transcription, diacritics, st) ==
    IF subs = <<>> \/ st.mapping_ind >= Len(st.phones)
    THEN st
    ELSE LET scan == ScanCandidates(Head(subs), transcription,
                                    st.transcription_ind, <<>>)
             pron == scan.pron[1]
         IN  IF scan.whole \/ scan.pron = <<>>
             THEN [st EXCEPT !.new_phones = @ \o st.phones,
                             !.mapping_ind = @ + Len(st.phones)]
             ELSE IF ~HasOriginal(pron) \/ pron.pronunciation = pron.original_pronunciation
             THEN LET to_extend == Slice(st.phones, st.transcription_ind,
                                         Len(pron.pronunciation))
                  IN  [st EXCEPT !.new_phones = @ \o to_extend,
                                 !.mapping_ind = @ + Len(to_extend),
                                 !.transcription_ind = @ + Len(pron.pronunciation)]
             ELSE LET r == WalkOriginal(pron.original_pronunciation, diacritics,
                                        [phones |-> st.phones,
                                         new_phones |-> st.new_phones,
                                         mapping_ind |-> st.mapping_ind,
                                         raised |-> FALSE])
                      next == [phones |-> r.phones, new_phones |-> r.new_phones,
                               mapping_ind |-> r.mapping_ind,
                               transcription_ind |->
                                   st.transcription_ind + Len(pron.pronunciation),
                               raised |-> r.raised]
                  IN  IF r.raised THEN next
                      ELSE RemapLoop(Tail(subs), transcription, diacritics, next)

\* Lines 379-439: phones is the list as the in-place relabels left it.
map_to_original_pronunciation(ps, subs, diacritics) ==
    RemapLoop(subs, LabelsOf(ps), diacritics,
              [phones |-> ps, new_phones |-> <<>>, mapping_ind |-> 0,
               transcription_ind |-> 0, raised |-> FALSE])

\* Lines 627-635: the phones of one word.  taken lists the places in
\* u.phone_labels of the phones collected; reading u.phone_labels at a place
\* past its end raises IndexError.
RECURSIVE CollectPhones(_, _, _, _)
CollectPhones(phone_labels, end, silences, acc) ==
    IF acc.phone_ind >= Len(phone_labels)
    THEN [acc EXCEPT !.raised = TRUE]
    ELSE LET ph == phone_labels[acc.phone_ind + 1]
         IN  IF ~(ph.end <= end)
             THEN acc
             ELSE IF ph.label \in silences
             THEN CollectPhones(phone_labels, end, silences,
                                [acc EXCEPT !.phone_ind = @ + 1])
             ELSE LET more == [acc EXCEPT !.taken = Append(@, acc.phone_ind + 1),
                                          !.phone_ind = @ + 1]
                  IN  IF more.phone_ind > Len(phone_labels) - 1
                      THEN more
                      ELSE CollectPhones(phone_labels, end, silences, more)

\* Lines 613-625: the candidate lists of the sub-words of a word, a
\* sub-word outside the vocabulary standing as oov_code.
SubPronunciations(word, dd) ==
    LET subwords == _lookup(word, dd.words_mapping, dd.punctuation, dd.clitic_set,
                            dd.clitic_markers, dd.compound_markers)
    IN  [n \in 1..Len(subwords) |->
            dd.words[IF subwords[n] \in DOMAIN dd.words_mapping
                     THEN subwords[n] ELSE dd.oov_code]]

\* The phones at the places of taken receive the labels the remapper gave
\* them in place.
Relabel(phone_labels, taken, remapped) ==
    [n \in 1..Len(phone_labels) |->
        IF \E j \in 1..Len(taken) : taken[j] = n
        THEN remapped[CHOOSE j \in 1..Len(taken) : taken[j] = n]
        ELSE phone_labels[n]]

\* Lines 609-644: "for interval in u.word_labels" from the state acc on.
\* past_end tells that the IndexError is the one of u.phone_labels[phone_ind]
\* in line 627.
RECURSIVE MultilingualTiers(_, _, _)
MultilingualTiers(word_labels, dd, acc) ==
    IF word_labels = <<>> THEN acc
    ELSE LET interval == Head(word_labels)
             word == interval.label
             subprons == SubPronunciations(word, dd)
             got == CollectPhones(acc.phone_labels, interval.end, dd.silences,
                                  [phone_ind |-> acc.phone_ind, taken |-> <<>>,
                                   raised |-> FALSE])
             cur_phones == [j \in 1..Len(got.taken) |-> acc.phone_labels[got.taken[j]]]
             r == map_to_original_pronunciation(cur_phones, subprons, dd.strip_diacritics)
         IN  IF got.raised
             THEN [acc EXCEPT !.raised = TRUE, !.past_end = TRUE,
                              !.phone_ind = got.phone_ind]
             ELSE IF r.raised
             THEN [acc EXCEPT !.raised = TRUE, !.phone_ind = got.phone_ind,
                              !.phone_labels = Relabel(@, got.taken, r.phones)]
             ELSE MultilingualTiers(
                      Tail(word_labels), dd,
                      [acc EXCEPT !.phone_ind = got.phone_ind,
                                  !.phone_labels = Relabel(@, got.taken, r.phones),
                                  !.phones = @ \o r.new_phones,
                                  !.words = IF word = <<>> THEN @
                                            ELSE Append(@, interval)])

\* Mutant of KeepsPhone: silences are dropped whether cleanup is set or not.
KeepsPhoneCleanupForgotten(label, silences, cleanup) == label \notin silences

\* Line 649: a phone is left out when its label is a silence and
\* cleanup_textgrids is set.
KeepsPhone(label, silences, cleanup) == ~(label \in silences /\ cleanup)

\* Lines 646-651: the labels are passed through.
PassThroughTiers(u, dd, cleanup) ==
    [words |-> u.word_labels,
     phones |-> SelectSeq(u.phone_labels,
                          LAMBDA ph : KeepsPhone(ph.label, dd.silences, cleanup)),
     phone_labels |-> u.phone_labels, raised |-> FALSE, past_end |-> FALSE]

\* Lines 606-651: the words and phones of one utterance.
UtteranceTiers(u, cleanup) ==
    LET dd == u.speaker.dictionary_data
    IN  IF dd.multilingual_ipa /\ cleanup
        THEN MultilingualTiers(u.word_labels, dd,
                               [words |-> <<>>, phones |-> <<>>, phone_ind |-> 0,
                                phone_labels |-> u.phone_labels, raised |-> FALSE,
                                past_end |-> FALSE])
        ELSE PassThroughTiers(u, dd, cleanup)

\* "speaker in output"
HasSpeaker(out, speaker) == \E n \in 1..Len(out) : out[n].speaker = speaker

\* Mutant of OutputAdd: a speaker that is already there gets the lists of
\* this utterance in place of its own.
OutputAddOverwrites(out, speaker, words, phns) ==
    IF ~HasSpeaker(out, speaker)
    THEN Append(out, [speaker |-> speaker, words |-> words, phones |-> phns])
    ELSE [n \in 1..Len(out) |->
             IF out[n].speaker = speaker
             THEN [speaker |-> speaker, words |-> words, phones |-> phns]
             ELSE out[n]]

\* Lines 652-656: the lists of the utterance start or extend the speaker's.
OutputAdd(out, speaker, words, phns) ==
    IF ~HasSpeaker(out, speaker)
    THEN Append(out, [speaker |-> speaker, words |-> words, phones |-> phns])
    ELSE [n \in 1..Len(out) |->
             IF out[n].speaker = speaker
             THEN [out[n] EXCEPT !.words = @ \o words, !.phones = @ \o phns]
             ELSE out[n]]

CurrentUtterance == utterances[utt_ind + 1]

\* Lines 600-602: an utterance without word_labels is passed over.
GenerateSkip ==
    /\ gt_pc = "loop"
    /\ utt_ind < Len(utterances)
    /\ CurrentUtterance.word_labels = <<>>
    /\ utt_ind' = utt_ind + 1
    /\ UNCHANGED <<utterances, cleanup_textgrids, output, gt_pc, dictionary_data,
                   lookupVars, wordVars, remapVars, batchVars, exportVars, ctmVars,
                   streamVars>>

\* Lines 603-656: the words and phones of the next utterance are added to
\* its speaker's lists.
GenerateUtterance ==
    /\ gt_pc = "loop"
    /\ utt_ind < Len(utterances)
    /\ CurrentUtterance.word_labels # <<>>
    /\ LET r == UtteranceTiers(CurrentUtterance, cleanup_textgrids)
       IN  /\ ~r.raised
           /\ utterances' = [utterances EXCEPT ![utt_ind + 1].phone_labels =
                                                   r.phone_labels]
           /\ output' = OutputAdd(output, CurrentUtterance.speaker.name,
                                  r.words, r.phones)
    /\ utt_ind' = utt_ind + 1
    /\ UNCHANGED <<cleanup_textgrids, gt_pc, dictionary_data,
                   lookupVars, wordVars, remapVars, batchVars, exportVars, ctmVars,
                   streamVars>>

\* Lines 610-640: the scan of the phones or the remapper raises IndexError.
GenerateRaises ==
    /\ gt_pc = "loop"
    /\ utt_ind < Len(utterances)
    /\ CurrentUtterance.word_labels # <<>>
    /\ LET r == UtteranceTiers(CurrentUtterance, cleanup_textgrids)
       IN  /\ r.raised
           /\ utterances' = [utterances EXCEPT ![utt_ind + 1].phone_labels =
                                                   r.phone_labels]
    /\ gt_pc' = "raised"
    /\ UNCHANGED <<cleanup_textgrids, utt_ind, output, dictionary_data,
                   lookupVars, wordVars, remapVars, batchVars, exportVars, ctmVars,
                   streamVars>>

\* Line 657: return output
GenerateReturn ==
    /\ gt_pc = "loop"
    /\ utt_ind = Len(utterances)
    /\ gt_pc' = "returned"
    /\ UNCHANGED <<utterances, cleanup_textgrids, utt_ind, output, dictionary_data,
                   lookupVars, wordVars, remapVars, batchVars, exportVars, ctmVars,
                   streamVars>>

\* Most utterances of a file.
MaxUtterances == 2

Silence == <<"sil">>
OovCode == <<"<unk>">>

\* The dictionary of a speaker: the words a and s; in multilingual IPA mode
\* a is pronounced a, written a: in the original, and s is pronounced i.
TierDictionary(multilingual) ==
    [words_mapping |-> WordsMappingOf({1, 2}),
     punctuation |-> <<".">>,
     clitic_set |-> {},
     clitic_markers |-> <<"'">>,
     compound_markers |-> <<"-">>,
     multilingual_ipa |-> multilingual,
     silences |-> {Silence},
     strip_diacritics |-> <<":">>,
     oov_code |-> OovCode,
     words |-> (VocabPool[1] :> <<Entry(<<<<"a">>>>, <<<<"a", ":">>>>)>>)
               @@ (VocabPool[2] :> <<EntryWithoutOriginal(<<<<"i">>>>)>>)
               @@ (OovCode :> <<EntryWithoutOriginal(<<<<"s", "p", "n">>>>)>>)]

\* The word and phone labels of an utterance, which is the k-th of its file.
LabelChoices(k) ==
    LET w(b, e, lab) == CtmInterval(b, e, lab, k)
        a == <<"a">>
        i == <<"i">>
    IN  { [word_labels |-> <<>>,
           phone_labels |-> <<w(0, 1, a)>>],
          [word_labels |-> <<w(0, 2, VocabPool[1])>>,
           phone_labels |-> <<w(0, 1, a), w(1, 2, i)>>],
          [word_labels |-> <<w(0, 1, VocabPool[1]), w(1, 2, VocabPool[2])>>,
           phone_labels |-> <<w(0, 1, a), w(1, 2, i)>>],
          [word_labels |-> <<w(1, 2, VocabPool[1])>>,
           phone_labels |-> <<w(0, 1, Silence), w(1, 2, a)>>],
          [word_labels |-> <<w(0, 2, VocabPool[1])>>,
           phone_labels |-> <<w(0, 1, a), w(1, 2, Silence)>>],
          [word_labels |-> <<w(0, 1, VocabPool[2]), w(2, 3, VocabPool[1])>>,
           phone_labels |-> <<w(0, 1, i), w(1, 2, Silence), w(2, 3, a)>>],
          [word_labels |-> <<w(0, 2, VocabPool[1]), w(2, 3, VocabPool[2])>>,
           phone_labels |-> <<w(0, 1, a), w(1, 2, i)>>] }

TierSpeakers == {"s1", "s2"}

\* The utterances of a file whose speakers have the dictionaries of dicts.
UtterancesOf(dicts, n) ==
    {[k \in 1..n |->
         [speaker |-> [name |-> who[k], dictionary_data |-> dicts[who[k]]],
          word_labels |-> labels[k].word_labels,
          phone_labels |-> labels[k].phone_labels]] :
        who \in [1..n -> TierSpeakers],
        labels \in {f \in [1..n -> UNION {LabelChoices(k) : k \in 1..n}] :
                       \A k \in 1..n : f[k] \in LabelChoices(k)}}

InitTiers ==
    /\ \E m1 \in BOOLEAN, m2 \in BOOLEAN, n \in 0..MaxUtterances :
          utterances \in UtterancesOf([s \in TierSpeakers |->
                                          TierDictionary(IF s = "s1" THEN m1 ELSE m2)],
                                      n)
    /\ cleanup_textgrids \in BOOLEAN
    /\ utt_ind = 0
    /\ output = <<>>
    /\ gt_pc = "loop"
    /\ DictionaryIdle /\ LookupIdle /\ WordIdle /\ RemapIdle /\ BatchIdle
    /\ ExportIdle /\ CtmIdle /\ StreamIdle

NextTiers == GenerateSkip \/ GenerateUtterance \/ GenerateRaises \/ GenerateReturn

SpecTiers == InitTiers /\ [][NextTiers]_vars

-----------------------------------------------------------------------------
(* Claims about generate_tiers *)

\* The utterances of a speaker that generate_tiers has taken and that have
\* word_labels, by their place in the file.
Contributing(speaker) ==
    {k \in 1..utt_ind :
        /\ utterances[k].speaker.name = speaker
        /\ utterances[k].word_labels # <<>>}

\* The lists of the utterances in ks, concatenated in file order from the
\* k-th utterance on; lists[k] is the list of the k-th utterance.
RECURSIVE InFileOrder(_, _, _)
InFileOrder(ks, k, lists) ==
    IF k > Len(lists) THEN <<>>
    ELSE (IF k \in ks THEN lists[k] ELSE <<>>) \o InFileOrder(ks, k + 1, lists)

WordLabelsOf == [k \in 1..Len(utterances) |-> utterances[k].word_labels]

\* The lists of a speaker in output.
TiersOf(speaker) ==
    output[CHOOSE n \in 1..Len(output) : output[n].speaker = speaker]

\* The intervals of ivs are of utterances in ks, in the order of the file.
OfUtterancesInOrder(ivs, ks) ==
    /\ \A n \in 1..Len(ivs) : ivs[n].utterance \in ks
    /\ \A n \in 1..(Len(ivs) - 1) : ivs[n].utterance <= ivs[n + 1].utterance

\* C18: in what generate_tiers has built, a speaker has lists if and only if
\* one of its utterances with word_labels was taken; its words are the
\* word_labels of those utterances concatenated in file order, and its
\* phones are phones of those utterances only, in file order; an utterance
\* without word_labels contributes nothing.
C18_TiersPerSpeakerInFileOrder ==
    gt_pc # "raised" =>
        \A speaker \in TierSpeakers :
            /\ HasSpeaker(output, speaker) <=> Contributing(speaker) # {}
            /\ HasSpeaker(output, speaker) =>
                  /\ TiersOf(speaker).words =
                         InFileOrder(Contributing(speaker), 1, WordLabelsOf)
                  /\ OfUtterancesInOrder(TiersOf(speaker).phones, Contributing(speaker))

\* generate_tiers returned for a file in which a speaker has two utterances
\* with word_labels, in multilingual IPA mode with cleanup.
C18_TwoUtterancesOfOneSpeaker ==
    /\ gt_pc = "returned"
    /\ Len(utterances) = 2
    /\ Contributing("s1") = {1, 2}
    /\ utterances[1].speaker.dictionary_data.multilingual_ipa
    /\ cleanup_textgrids
    /\ Len(TiersOf("s1").phones) >= 3

\* The phones of each utterance that are passed through: all but the
\* silences when cleanup is set, all when it is not.
PassedPhonesOf ==
    [k \in 1..Len(utterances) |->
        SelectSeq(utterances[k].phone_labels,
                  LAMBDA ph : cleanup_textgrids => ph.label # Silence)]

\* The speaker's dictionary is not in multilingual IPA mode or cleanup is off.
PassesThrough(speaker) ==
    \A k \in 1..Len(utterances) :
        utterances[k].speaker.name = speaker =>
            ~(utterances[k].speaker.dictionary_data.multilingual_ipa /\ cleanup_textgrids)

\* C20: for a speaker whose dictionary is not in multilingual IPA mode, or
\* with cleanup off, the words generate_tiers has built are the word_labels
\* of its utterances, unchanged and in order, and the phones are their
\* phone_labels, unchanged and in order, without the silences when cleanup
\* is set and with them when it is not.
C20_PassThroughDropsSilencesOnCleanup ==
    \A speaker \in TierSpeakers :
        (PassesThrough(speaker) /\ HasSpeaker(output, speaker)) =>
            /\ TiersOf(speaker).words =
                   InFileOrder(Contributing(speaker), 1, WordLabelsOf)
            /\ TiersOf(speaker).phones =
                   InFileOrder(Contributing(speaker), 1, PassedPhonesOf)

\* generate_tiers returned lists with a silence kept, the dictionary being in
\* multilingual IPA mode and cleanup off.
C20_SilenceKeptWithoutCleanup ==
    /\ gt_pc = "returned"
    /\ ~cleanup_textgrids
    /\ HasSpeaker(output, "s1")
    /\ utterances[1].speaker.dictionary_data.multilingual_ipa
    /\ \E n \in 1..Len(TiersOf("s1").phones) : TiersOf("s1").phones[n].label = Silence


\* generate_tiers is at an utterance with word_labels whose speaker's
\* dictionary is in multilingual IPA mode, cleanup being set.
AtMultilingualUtterance ==
    /\ gt_pc = "loop"
    /\ utt_ind < Len(utterances)
    /\ CurrentUtterance.word_labels # <<>>
    /\ CurrentUtterance.speaker.dictionary_data.multilingual_ipa
    /\ cleanup_textgrids

\* The phones of u that belong to its n-th word: no silences, ending at or
\* before the end of the word, and not belonging to an earlier word.
RECURSIVE PhonesOfWord(_, _)
PhonesOfWord(u, n) ==
    LET earlier == UNION {PhonesOfWord(u, m) : m \in 1..(n - 1)}
    IN  {q \in 1..Len(u.phone_labels) :
            /\ u.phone_labels[q].label \notin u.speaker.dictionary_data.silences
            /\ u.phone_labels[q].end <= u.word_labels[n].end
            /\ q \notin earlier}

\* The members of a set of places, in ascending order.
RECURSIVE Ascending(_)
Ascending(places) ==
    IF places = {} THEN <<>>
    ELSE LET least == CHOOSE q \in places : \A r \in places : q <= r
         IN  <<least>> \o Ascending(places \ {least})

\* What the remapper returns for the phones of the words of u from the n-th
\* word on, one word after the other.
RECURSIVE RemappedFrom(_, _)
RemappedFrom(u, n) ==
    IF n > Len(u.word_labels) THEN <<>>
    ELSE LET dd == u.speaker.dictionary_data
             places == Ascending(PhonesOfWord(u, n))
             handed == [j \in 1..Len(places) |-> u.phone_labels[places[j]]]
         IN  map_to_original_pronunciation(
                 handed, SubPronunciations(u.word_labels[n].label, dd),
                 dd.strip_diacritics).new_phones
             \o RemappedFrom(u, n + 1)

\* The lists of a speaker in out, empty when the speaker has none.
ListsOf(out, speaker) ==
    IF HasSpeaker(out, speaker)
    THEN out[CHOOSE n \in 1..Len(out) : out[n].speaker = speaker]
    ELSE [speaker |-> speaker, words |-> <<>>, phones |-> <<>>]

\* C27: in multilingual IPA mode with cleanup, generate_tiers hands to the
\* remapper, for each word interval of an utterance in order, exactly the
\* phones that are no silences, were not taken by an earlier word and end at
\* or before the end of the word, and it appends the word interval and the
\* remapped phones to the lists of the utterance's speaker.
C27_WordsGetTheirPhonesRemapped ==
    [][AtMultilingualUtterance =>
        LET u == CurrentUtterance
            before == ListsOf(output, u.speaker.name)
            after == ListsOf(output', u.speaker.name)
        IN  /\ gt_pc' # "raised"
            /\ after.words = before.words \o u.word_labels
            /\ after.phones = before.phones \o RemappedFrom(u, 1)
      ]_vars

\* C30: in multilingual IPA mode with cleanup, the scan of an utterance's
\* phone_labels never reads past their end: generate_tiers does not stop
\* with the IndexError of u.phone_labels[phone_ind].
C30_ScanStaysInsidePhoneLabels ==
    [][(AtMultilingualUtterance /\ gt_pc' = "raised") =>
          ~UtteranceTiers(CurrentUtterance, cleanup_textgrids).past_end]_vars


-----------------------------------------------------------------------------
(* The record streaming of ctms_to_textgrids_non_mp *)

(* One pass over the CTM files of a job, one file per dictionary: the word  *)
(* records (lines 481-501) or the phone records (lines 504-526).  The two   *)
(* loops differ in the test "cur_utt is not None" of line 517, which is     *)
(* true there since line 513 has just set cur_utt.  The label of an         *)
(* interval is "id" as process_ctm_line left it, the digits of a Kaldi id,  *)
(* and "text" once a conversion has replaced it in place by the word or the *)
(* phone, which int() does not parse.                                       *)

\* Most dictionaries, that is CTM files, of one job.
MaxDictionaries == 3

\* How the buffer is converted: parse_from_word (cleanup_textgrids set),
\* parse_from_word_no_cleanup, or parse_from_phone.
StreamModes == {"parse_from_word", "parse_from_word_no_cleanup", "parse_from_phone"}

\* parse_from_word reads the labels; the other two rewrite them in place
\* (lines 321-323 and 349-354).
RewritesInPlace(mode) == mode # "parse_from_word"

\* int(ctm_interval.label) of lines 322 and 350 raises ValueError for a
\* label that is no number; parse_from_word builds its intervals from the
\* tokens of the text and is taken not to raise.
Converts(labels, mode) ==
    RewritesInPlace(mode) => \A n \in 1..Len(labels) : labels[n].label = "id"

\* The buffer after the conversion.
ConvertedLabels(labels, mode) ==
    IF RewritesInPlace(mode)
    THEN [n \in 1..Len(labels) |-> [labels[n] EXCEPT !.label = "text"]]
    ELSE labels

\* What is kept of a call of process_current_word_labels or
\* process_current_phone_labels: the utterance and the buffer it was handed.
Conversion(utt, labels) ==
    [utterance |-> utt,
     places |-> [n \in 1..Len(labels) |-> labels[n].place]]

CurrentCtm == ctm_paths[dict_ind + 1]

\* Lines 483-499 and 506-524: the next record of the file.  A record of
\* another utterance has the buffer converted and started anew.
ReadRecord ==
    /\ st_pc = "lines"
    /\ dict_ind < Len(ctm_paths)
    /\ rec_ind < Len(CurrentCtm)
    /\ LET ctm_interval == CurrentCtm[rec_ind + 1]
           utt == ctm_interval.utterance
           cur == IF cur_utt = None THEN utt ELSE cur_utt
       IN  IF utt # cur
           THEN /\ conversions' = Append(conversions, Conversion(cur, current_labels))
                /\ IF Converts(current_labels, stream_mode)
                   THEN /\ cur_utt' = utt
                        /\ current_labels' = <<ctm_interval>>
                        /\ rec_ind' = rec_ind + 1
                        /\ st_pc' = "lines"
                   ELSE /\ cur_utt' = cur
                        /\ st_pc' = "raised"
                        /\ UNCHANGED <<current_labels, rec_ind>>
           ELSE /\ cur_utt' = cur
                /\ current_labels' = Append(current_labels, ctm_interval)
                /\ rec_ind' = rec_ind + 1
                /\ UNCHANGED <<conversions, st_pc>>
    /\ UNCHANGED <<ctm_paths, stream_mode, dict_ind, dictionary_data, lookupVars,
                   wordVars, remapVars, batchVars, exportVars, ctmVars, tierVars>>

\* Lines 500-501 and 525-526: at the end of a file a buffer that is not
\* empty is converted; cur_utt and current_labels stay as they are.
EndOfCtm ==
    /\ st_pc = "lines"
    /\ dict_ind < Len(ctm_paths)
    /\ rec_ind = Len(CurrentCtm)
    /\ IF current_labels # <<>>
       THEN /\ conversions' = Append(conversions, Conversion(cur_utt, current_labels))
            /\ IF Converts(current_labels, stream_mode)
               THEN /\ current_labels' = ConvertedLabels(current_labels, stream_mode)
                    /\ dict_ind' = dict_ind + 1
                    /\ rec_ind' = 0
                    /\ st_pc' = "lines"
               ELSE /\ st_pc' = "raised"
                    /\ UNCHANGED <<current_labels, dict_ind, rec_ind>>
       ELSE /\ dict_ind' = dict_ind + 1
            /\ rec_ind' = 0
            /\ UNCHANGED <<current_labels, conversions, st_pc>>
    /\ UNCHANGED <<ctm_paths, stream_mode, cur_utt, dictionary_data, lookupVars,
                   wordVars, remapVars, batchVars, exportVars, ctmVars, tierVars>>

\* The loop over the dictionaries has taken every file.
EndOfStream ==
    /\ st_pc = "lines"
    /\ dict_ind = Len(ctm_paths)
    /\ st_pc' = "done"
    /\ UNCHANGED <<ctm_paths, stream_mode, dict_ind, rec_ind, cur_utt,
                   current_labels, conversions, dictionary_data, lookupVars,
                   wordVars, remapVars, batchVars, exportVars, ctmVars, tierVars>>

\* The utterances of the speakers of each dictionary: an utterance has its
\* records in the file of its speaker's dictionary, one after the other.
UtterancesOfDictionary ==
    <<<<"a1", "a2">>, <<"b1", "b2">>, <<"c1", "c2">>, <<"d1", "d2">>>>

\* The files the k-th dictionary can have: empty, or the records of one or
\* two utterances.
CtmChoices(k) ==
    LET rec(n, u) == [utterance |-> UtterancesOfDictionary[k][u],
                      place |-> <<k, n>>, label |-> "id"]
    IN  { <<>>,
          <<rec(1, 1)>>,
          <<rec(1, 1), rec(2, 1)>>,
          <<rec(1, 1), rec(2, 2)>> }

CtmPaths(n) ==
    {f \in [1..n -> UNION {CtmChoices(k) : k \in 1..n}] :
        \A k \in 1..n : f[k] \in CtmChoices(k)}

\* Lines 479-480 and 502-503: cur_utt = None, current_labels = [].
InitStream ==
    /\ ctm_paths \in UNION {CtmPaths(n) : n \in 1..MaxDictionaries}
    /\ stream_mode \in StreamModes
    /\ dict_ind = 0
    /\ rec_ind = 0
    /\ cur_utt = None
    /\ current_labels = <<>>
    /\ conversions = <<>>
    /\ st_pc = "lines"
    /\ DictionaryIdle /\ LookupIdle /\ WordIdle /\ RemapIdle /\ BatchIdle
    /\ ExportIdle /\ CtmIdle /\ TierIdle

NextStream == ReadRecord \/ EndOfCtm \/ EndOfStream

SpecStream == InitStream /\ [][NextStream]_vars

-----------------------------------------------------------------------------
(* Claims about the record streaming *)

\* C28: while the records of a job are streamed the buffer holds intervals
\* of the current utterance only, and the buffer of each utterance is
\* handed to the conversion exactly once: none is converted a second time,
\* also when the records are in several files or a file is empty.
C28_EachBufferConvertedOnce ==
    /\ \A n \in 1..Len(current_labels) : current_labels[n].utterance = cur_utt
    /\ \A m, n \in 1..Len(conversions) :
           m < n => conversions[m].utterance # conversions[n].utterance
    /\ st_pc = "done" =>
           \A k \in 1..Len(ctm_paths) :
               \A n \in 1..Len(ctm_paths[k]) :
                   \E c \in 1..Len(conversions) :
                       /\ conversions[c].utterance = ctm_paths[k][n].utterance
                       /\ \E j \in 1..Len(conversions[c].places) :
                              conversions[c].places[j] = ctm_paths[k][n].place

=============================================================================
